---- MODULE Spec2Model ----
(***************************************************************************)
(* Delivery dispatch of the "entreguei" application.                       *)
(*                                                                         *)
(* App (src/App.tsx) owns the request collection; a CourierView            *)
(* (src/components/CourierView.tsx) is a courier session over it: its      *)
(* state hooks, its two detection effects and its click handlers.          *)
(* CustomerView and geocodeAddress live in src/services/geminiService.ts:  *)
(* the order form, the geocoding tiers and the tracking simulation; the    *)
(* route computation is CourierView's.  Each part has its own section and  *)
(* its own specification.                                                  *)
(*                                                                         *)
(* React scheduling is modelled as it runs: a handler commits its state    *)
(* updates in one step; the effects whose dependencies changed run in a    *)
(* later step (RunEffects) on the committed values, their updates batched; *)
(* a session handles no further event before its effects have run.  A      *)
(* second session learns of a change of the collection when the new        *)
(* requests prop is rendered into it (Deliver).                            *)
(*                                                                         *)
(* Left out: activeTab and selectedId (the user can always return to the   *)
(* home tab, they gate nothing else), the map, markers and sound.          *)
(* Math.random ids are modelled as fresh ids.                              *)
(***************************************************************************)
EXTENDS Integers, Sequences, FiniteSets, TLC

\* ---------------------------------------------------------------- bounds
MaxCreate == 2

\* address texts typed into the order form in one run
MaxEdits == 1

\* handleValidateAddress calls awaiting their result at one time
MaxValidating == 1

\* setInterval calls in one run
MaxTimers == 3

\* drawRoute calls that fetch a route in one run
MaxDraws == 3

\* ------------------------------------------------------------- constants
PENDING == "PENDING"
ACCEPTED == "ACCEPTED"
PICKED_UP == "PICKED_UP"
ARRIVED_DESTINATION == "ARRIVED_DESTINATION"
DELIVERED == "DELIVERED"

DeliveryStatus == {PENDING, ACCEPTED, PICKED_UP, ARRIVED_DESTINATION, DELIVERED}

ActiveStatuses == {ACCEPTED, PICKED_UP, ARRIVED_DESTINATION}

Couriers == {"c1", "c2"}

Null == [id |-> "null"]

\* the two seed requests of App's useState initialiser; each createdAt is
\* its own Date.now() call, so the second is the same millisecond (gap 0)
\* or the next one (gap 1)
SeedRequests(gap) ==
  << [id |-> "1", status |-> PENDING, createdAt |-> 0,
      pickupAddress |-> "Rua do Acampamento, 300",
      dropoffAddress |-> "Av. Rio Branco, 850",
      paymentMethod |-> "PIX", payer |-> "SENDER"],
     [id |-> "2", status |-> PENDING, createdAt |-> gap,
      pickupAddress |-> "Rua Venancio Aires, 1500",
      dropoffAddress |-> "Av. Nossa Sra. Medianeira, 100",
      paymentMethod |-> "CASH", payer |-> "RECIPIENT"] >>

SeedIds == {"1", "2"}

\* ids handed out by handleCreateRequest, in order
NewId(n) == IF n = 0 THEN "n1" ELSE IF n = 1 THEN "n2" ELSE "n3"

\* the argument of the n-th onRequestCreate call when the order form is not
\* part of the run: an order with its resolved coordinates (0.0001 degree)
NewRequest(n) ==
  [ pickupAddress |-> "Rua A, 1", dropoffAddress |-> "Rua B, 2",
    pickupLat |-> -297000 - n, pickupLng |-> -538000,
    dropoffLat |-> -296500, dropoffLng |-> -537500 + n,
    paymentMethod |-> IF n % 2 = 0 THEN "PIX" ELSE "CASH",
    payer |-> IF n % 2 = 0 THEN "SENDER" ELSE "RECIPIENT" ]

\* { ...newRequest, id, createdAt, status: PENDING }
CreatedRequest(newRequest, n) ==
  [ id |-> NewId(n), status |-> PENDING, createdAt |-> n + 2 ] @@ newRequest

VARIABLES
  requests,        \* App: the request collection, in array order
  touched,         \* ids of the requests whose object a status update has
                   \* replaced since CustomerView's re-sync effect last ran
  created,         \* number of handleCreateRequest calls so far; Date.now()
                   \* of the next call is created + 2
  view,            \* per session: the requests prop it last rendered
  stale,           \* per session: a newer collection is not yet rendered
  isOnline,        \* per session
  incomingOffer,   \* per session: a request snapshot or Null
  ignoredOffers,   \* per session: set of ids
  activeDelivery,  \* per session: a request snapshot or Null
  pending,         \* per session: effects whose dependencies changed
  locPending,      \* per session: geolocation callback not yet fired
  legIn,           \* leg derivation: the request and the two user locations
  legOut,          \* leg derivation: what each of the three functions gave
  geoIn,           \* geocodeAddress: its four arguments
  geoSvc,          \* what the geocoding service answers to each attempt
  geoPc,           \* geocodeAddress: 0 no call, 1..4 the attempt it is at,
                   \* 5 about to return null, 6 returned
  geoFlight,       \* the attempts whose fetch has left and not settled
  geoLog,          \* the queries fetched so far, in order
  geoResult,       \* what the call returned
  formData,        \* CustomerView: the order form
  coordFrom,       \* per address: the arguments of the geocodeAddress call
                   \* whose result the stored coordinate is (history)
  validating,      \* the handleValidateAddress calls awaiting geocodeAddress
  sub,             \* handleSubmit: where it is, the formData of its render
                   \* and its four final* locals
  formOut,         \* the payloads handed to onRequestCreate, in order
  edits,           \* number of onChange events so far
  geoKnown,        \* the place names the geocoding service knows
  routeIn,         \* route computation: origin, destination and what the
                   \* routing service answers
  routeOut,        \* route computation: what each function gave
  trackingRequest, \* CustomerView: the tracked request or Null
  trackCoords,     \* the coordinates the tracked request carries
  custLocation,    \* CustomerView: userLocation
  custLocPending,  \* the geolocation callback has not fired yet
  mapReady,        \* mapInstanceRef.current is set
  trackEffect,     \* the Tracking Logic effect has to run
  trackCleanup,    \* its previous run returned the cleanup
  timers,          \* the active intervals
  simulationRef,   \* simulationRef.current, 0 for null
  timerCount,      \* number of setInterval calls so far
  courierMarker,   \* courierMarkerRef.current and where it stands
  drawTarget,      \* CourierView: activeDelivery || incomingOffer while
                   \* online, as an id, or "none"
  drawPending,     \* the Real Route Drawing effect has to run
  drawFlight,      \* the drawRoute calls awaiting fetchRoute
  mapLayers,       \* the polylines on the courier's map
  routeLayerRef,   \* routeLayerRef.current as a layer number, 0 for null
  drawCount        \* number of drawRoute calls that fetched so far

vars == << requests, touched, created, view, stale, isOnline, incomingOffer,
           ignoredOffers, activeDelivery, pending, locPending, legIn, legOut,
           geoIn, geoSvc, geoPc, geoFlight, geoLog, geoResult,
           formData, coordFrom, validating, sub, formOut, edits,
           geoKnown, routeIn, routeOut, trackingRequest, trackCoords,
           custLocation, custLocPending, mapReady, trackEffect, trackCleanup,
           timers, simulationRef, timerCount, courierMarker,
           drawTarget, drawPending, drawFlight, mapLayers, routeLayerRef,
           drawCount >>

dispatchVars == << requests, touched, created, view, stale, isOnline, incomingOffer,
                   ignoredOffers, activeDelivery, pending, locPending >>

legVars == << legIn, legOut >>

geoVars == << geoIn, geoSvc, geoPc, geoFlight, geoLog, geoResult >>

formVars == << formData, coordFrom, validating, sub, formOut, edits,
              geoKnown >>

routeVars == << routeIn, routeOut >>

trackVars == << trackingRequest, trackCoords, custLocation, custLocPending,
               mapReady, trackEffect, trackCleanup, timers, simulationRef,
               timerCount, courierMarker >>

drawVars == << drawTarget, drawPending, drawFlight, mapLayers, routeLayerRef,
              drawCount >>

\* the variables outside each part
notDispatch == << legVars, geoVars, formVars, routeVars, trackVars, drawVars >>

notLeg == << dispatchVars, geoVars, formVars, routeVars, trackVars, drawVars >>

notGeo == << dispatchVars, legVars, formVars, routeVars, trackVars, drawVars >>

notRoute == << dispatchVars, legVars, geoVars, formVars, trackVars, drawVars >>

notDraw == << dispatchVars, legVars, geoVars, formVars, routeVars, trackVars >>

\* tracking writes the collection only through the status update it follows
notTrack == << legVars, geoVars, formVars, routeVars, drawVars >>

\* the order form reads nothing of the other parts and writes the
\* collection only through onRequestCreate
notForm == << legVars, geoVars, routeVars, trackVars, drawVars >>

\* ------------------------------------------------------------- helpers
Ids(reqs) == { reqs[i].id : i \in 1..Len(reqs) }

\* Array.prototype.find: the first element, in array order, among those at
\* the indices idx (the indices where the predicate holds), or Null
Find(reqs, idx) ==
  IF idx = {} THEN Null
  ELSE reqs[CHOOSE i \in idx : \A j \in idx : i <= j]

ById(reqs, id) == Find(reqs, { i \in 1..Len(reqs) : reqs[i].id = id })

StatusOf(reqs, id) == ById(reqs, id).status

\* variant: the updated request is rebuilt from its id, the new status and
\* its creation time, without the spread of the old object
MapStatus_NoSpread(reqs, id, status) ==
  [ i \in 1..Len(reqs) |->
      IF reqs[i].id = id
      THEN [ id |-> id, status |-> status, createdAt |-> reqs[i].createdAt ]
      ELSE reqs[i] ]

\* prev.map(req => req.id === id ? { ...req, status } : req)
MapStatus(reqs, id, status) ==
  [ i \in 1..Len(reqs) |->
      IF reqs[i].id = id THEN [ reqs[i] EXCEPT !.status = status ] ELSE reqs[i] ]

\* variant: an ACCEPTED request does not count as the active delivery
CurrentActive_MissesAccepted(reqs) ==
  Find(reqs, { i \in 1..Len(reqs) :
                 reqs[i].status \in { PICKED_UP, ARRIVED_DESTINATION } })

\* requests.find(r => [ACCEPTED, PICKED_UP, ARRIVED_DESTINATION].includes(r.status))
CurrentActive(reqs) ==
  Find(reqs, { i \in 1..Len(reqs) : reqs[i].status \in ActiveStatuses })

\* variant: the matcher forgets the ignored set
NextOffer_NoIgnored(reqs, ignored) ==
  Find(reqs, { i \in 1..Len(reqs) : reqs[i].status = PENDING })

\* requests.find(r => r.status === PENDING && !ignoredOffers.has(r.id))
NextOffer(reqs, ignored) ==
  Find(reqs, { i \in 1..Len(reqs) :
                 reqs[i].status = PENDING /\ reqs[i].id \notin ignored })

\* variant: the list shows every request
AvailableRequests_Unfiltered(reqs) ==
  { reqs[i] : i \in 1..Len(reqs) }

\* requests.filter(r => r.status === PENDING)
AvailableRequests(reqs) ==
  { reqs[i] : i \in { j \in 1..Len(reqs) : reqs[j].status = PENDING } }

Quiescent(c) == pending[c] = {}

OthersStale(c) == [ d \in Couriers |-> IF d = c THEN FALSE ELSE TRUE ]

\* ------------------------------------------------------------- Init
InitDispatch ==
  /\ \E gap \in {0, 1} :
       /\ requests = SeedRequests(gap)
       /\ view = [ c \in Couriers |-> SeedRequests(gap) ]
  /\ touched = {}
  /\ created = 0
  /\ stale = [ c \in Couriers |-> FALSE ]
  /\ isOnline = [ c \in Couriers |-> TRUE ]
  /\ incomingOffer = [ c \in Couriers |-> Null ]
  /\ ignoredOffers = [ c \in Couriers |-> {} ]
  /\ activeDelivery = [ c \in Couriers |-> Null ]
  /\ pending = [ c \in Couriers |-> {"active", "offer"} ]
  /\ locPending = [ c \in Couriers |-> TRUE ]

\* ------------------------------------------------------------- App
\* variant: the new request is put at the end of the array
handleCreateRequest_Append ==
  /\ created < MaxCreate
  /\ requests' = requests \o << CreatedRequest(NewRequest(created), created) >>
  /\ created' = created + 1
  /\ stale' = [ c \in Couriers |-> TRUE ]
  /\ UNCHANGED << touched, view, isOnline, incomingOffer, ignoredOffers,
                  activeDelivery, pending, locPending >>
  /\ UNCHANGED notDispatch

\* App.handleCreateRequest: the new request is put in front of the array
handleCreateRequest ==
  /\ created < MaxCreate
  /\ requests' = << CreatedRequest(NewRequest(created), created) >> \o requests
  /\ created' = created + 1
  /\ stale' = [ c \in Couriers |-> TRUE ]
  /\ UNCHANGED << touched, view, isOnline, incomingOffer, ignoredOffers,
                  activeDelivery, pending, locPending >>
  /\ UNCHANGED notDispatch

\* App.handleUpdateStatus as called by session c: setRequests, then the
\* caller's own render sees the new array
UpdateStatusBy(c, id, status) ==
  /\ requests' = MapStatus(requests, id, status)
  /\ touched' = touched \cup ({ id } \cap Ids(requests))
  /\ view' = [ view EXCEPT ![c] = MapStatus(requests, id, status) ]
  /\ stale' = OthersStale(c)

\* ------------------------------------------------------------- CourierView
\* variant: the new requests prop is rendered but the effects that depend
\* on it do not run
Deliver_NoEffects(c) ==
  /\ Quiescent(c)
  /\ stale[c]
  /\ view' = [ view EXCEPT ![c] = requests ]
  /\ stale' = [ stale EXCEPT ![c] = FALSE ]
  /\ UNCHANGED << requests, touched, created, isOnline, incomingOffer,
                  ignoredOffers, activeDelivery, pending, locPending >>
  /\ UNCHANGED notDispatch

\* the render in which a changed requests prop reaches session c
Deliver(c) ==
  /\ Quiescent(c)
  /\ stale[c]
  /\ view' = [ view EXCEPT ![c] = requests ]
  /\ stale' = [ stale EXCEPT ![c] = FALSE ]
  /\ pending' = [ pending EXCEPT ![c] = {"active", "offer"} ]
  /\ UNCHANGED << requests, touched, created, isOnline, incomingOffer, ignoredOffers,
                  activeDelivery, locPending >>
  /\ UNCHANGED notDispatch

\* Active Delivery Detection effect, deps [requests]
ActiveAfter(c) ==
  IF "active" \in pending[c] THEN CurrentActive(view[c]) ELSE activeDelivery[c]

\* variant: the Offer Detection effect does not look at isOnline
OfferDetection_IgnoresOnline(c) ==
  IF activeDelivery[c] # Null THEN Null
  ELSE NextOffer(view[c], ignoredOffers[c])

\* Offer Detection effect, deps [requests, isOnline, ignoredOffers,
\* userLocation, activeDelivery]; it reads the committed activeDelivery
OfferDetection(c) ==
  IF ~isOnline[c] \/ activeDelivery[c] # Null THEN Null
  ELSE NextOffer(view[c], ignoredOffers[c])

OfferAfter(c) ==
  IF "offer" \in pending[c] THEN OfferDetection(c)
  ELSE IF "active" \in pending[c] /\ CurrentActive(view[c]) # Null THEN Null
  ELSE incomingOffer[c]

RunEffects(c) ==
  /\ pending[c] # {}
  /\ activeDelivery' = [ activeDelivery EXCEPT ![c] = ActiveAfter(c) ]
  /\ incomingOffer' = [ incomingOffer EXCEPT ![c] = OfferAfter(c) ]
  /\ pending' = [ pending EXCEPT ![c] =
                    IF ActiveAfter(c) # activeDelivery[c] THEN {"offer"} ELSE {} ]
  /\ UNCHANGED << requests, touched, created, view, stale, isOnline, ignoredOffers,
                  locPending >>
  /\ UNCHANGED notDispatch

\* the offer card is rendered iff incomingOffer && !activeDelivery && isOnline
OfferCardShown(c) ==
  incomingOffer[c] # Null /\ activeDelivery[c] = Null /\ isOnline[c]

handleAcceptOffer(c) ==
  /\ Quiescent(c)
  /\ OfferCardShown(c)
  /\ UpdateStatusBy(c, incomingOffer[c].id, ACCEPTED)
  /\ incomingOffer' = [ incomingOffer EXCEPT ![c] = Null ]
  /\ pending' = [ pending EXCEPT ![c] = {"active", "offer"} ]
  /\ UNCHANGED << created, isOnline, ignoredOffers, activeDelivery, locPending >>
  /\ UNCHANGED notDispatch

\* variant: the decline records the id but leaves the offer in place
handleDeclineOffer_KeepsOffer(c) ==
  /\ Quiescent(c)
  /\ OfferCardShown(c)
  /\ ignoredOffers' = [ ignoredOffers EXCEPT ![c] = @ \cup {incomingOffer[c].id} ]
  /\ pending' = [ pending EXCEPT ![c] = {"offer"} ]
  /\ UNCHANGED << requests, touched, created, view, stale, isOnline, incomingOffer,
                  activeDelivery, locPending >>
  /\ UNCHANGED notDispatch

handleDeclineOffer(c) ==
  /\ Quiescent(c)
  /\ OfferCardShown(c)
  /\ ignoredOffers' = [ ignoredOffers EXCEPT ![c] = @ \cup {incomingOffer[c].id} ]
  /\ incomingOffer' = [ incomingOffer EXCEPT ![c] = Null ]
  /\ pending' = [ pending EXCEPT ![c] = {"offer"} ]
  /\ UNCHANGED << requests, touched, created, view, stale, isOnline, activeDelivery,
                  locPending >>
  /\ UNCHANGED notDispatch

NextStatus(s) ==
  IF s = ACCEPTED THEN PICKED_UP
  ELSE IF s = PICKED_UP THEN ARRIVED_DESTINATION
  ELSE DELIVERED

handleProgressAction(c) ==
  /\ Quiescent(c)
  /\ activeDelivery[c] # Null
  /\ activeDelivery[c].status \in ActiveStatuses
  /\ UpdateStatusBy(c, activeDelivery[c].id, NextStatus(activeDelivery[c].status))
  /\ activeDelivery' = [ activeDelivery EXCEPT ![c] =
        IF activeDelivery[c].status = ARRIVED_DESTINATION THEN Null ELSE @ ]
  /\ pending' = [ pending EXCEPT ![c] = {"active", "offer"} ]
  /\ UNCHANGED << created, isOnline, incomingOffer, ignoredOffers, locPending >>
  /\ UNCHANGED notDispatch

\* onClick={() => setIsOnline(!isOnline)}
toggleOnline(c) ==
  /\ Quiescent(c)
  /\ isOnline' = [ isOnline EXCEPT ![c] = ~@ ]
  /\ pending' = [ pending EXCEPT ![c] = {"offer"} ]
  /\ UNCHANGED << requests, touched, created, view, stale, incomingOffer, ignoredOffers,
                  activeDelivery, locPending >>
  /\ UNCHANGED notDispatch

\* the "Proximos pedidos" list: shown iff !incomingOffer && !activeDelivery,
\* its items iff isOnline; a click makes the item the offer
pickFromList(c) ==
  /\ Quiescent(c)
  /\ incomingOffer[c] = Null /\ activeDelivery[c] = Null /\ isOnline[c]
  /\ \E r \in AvailableRequests(view[c]) :
       incomingOffer' = [ incomingOffer EXCEPT ![c] = r ]
  /\ UNCHANGED << requests, touched, created, view, stale, isOnline, ignoredOffers,
                  activeDelivery, pending, locPending >>
  /\ UNCHANGED notDispatch

\* getCurrentPosition callback (success or error): setUserLocation
handleGeolocation(c) ==
  /\ Quiescent(c)
  /\ locPending[c]
  /\ locPending' = [ locPending EXCEPT ![c] = FALSE ]
  /\ pending' = [ pending EXCEPT ![c] = {"offer"} ]
  /\ UNCHANGED << requests, touched, created, view, stale, isOnline, incomingOffer,
                  ignoredOffers, activeDelivery >>
  /\ UNCHANGED notDispatch

SessionStep(c) ==
  \/ Deliver(c)
  \/ RunEffects(c)
  \/ handleAcceptOffer(c)
  \/ handleDeclineOffer(c)
  \/ handleProgressAction(c)
  \/ toggleOnline(c)
  \/ pickFromList(c)
  \/ handleGeolocation(c)

\* =================================================================
\* Leg derivation: CourierView.getTargetCoordinates, drawRoute and the
\* CustomerView tracking effect.  Coordinates are in units of 0.0001 degree
\* (exact decimals; the code computes in doubles).
\* =================================================================

\* an optional number: absent (undefined) or a value
Undef == [def |-> FALSE, v |-> 0]

Num(n) == [def |-> TRUE, v |-> n]

\* JavaScript truthiness of an optional number: undefined and 0 are falsy
Truthy(x) == x.def /\ x.v # 0

DEFAULT_LAT == -296842

DEFAULT_LNG == -538069

\* the inputs of the leg derivation
LegStatuses == DeliveryStatus

LegLats == { Undef, Num(0), Num(-297000) }

LegLngs == { Undef, Num(-538000) }

LegDropLats == { Undef, Num(-296500) }

LegDropLngs == { Undef, Num(0), Num(-537500) }

\* sum of the char codes of the id: "1" is 49, "n1" is 110 + 49
LegHashes == { 49, 159 }

LegLocations == { << DEFAULT_LAT, DEFAULT_LNG >>, << -296000, -537000 >> }

LegInputs ==
  [ status : LegStatuses, hash : LegHashes,
    pickupLat : LegLats, pickupLng : LegLngs,
    dropoffLat : LegDropLats, dropoffLng : LegDropLngs,
    courierLocation : LegLocations, customerLocation : LegLocations ]

NoLegOut == [ done |-> {}, route |-> << >>, track |-> << >>, target |-> << >> ]

\* getCoordinates: the pseudo-coordinate of a request without coordinates,
\* ((hash % 100) - 50) / 2500 and (((hash * 13) % 100) - 50) / 2500 degrees
getCoordinates(hash, center) ==
  << center[1] + 4 * ((hash % 100) - 50),
     center[2] + 4 * (((hash * 13) % 100) - 50) >>

Shift(p, d) == << p[1] + d, p[2] + d >>

getPickupCoords(req, userLocation) ==
  IF Truthy(req.pickupLat) /\ Truthy(req.pickupLng)
  THEN << req.pickupLat.v, req.pickupLng.v >>
  ELSE getCoordinates(req.hash, userLocation)

getDropoffCoords(req, userLocation) ==
  IF Truthy(req.dropoffLat) /\ Truthy(req.dropoffLng)
  THEN << req.dropoffLat.v, req.dropoffLng.v >>
  ELSE Shift(getPickupCoords(req, userLocation), 100)

\* drawRoute: startCoords and endCoords of the polyline
drawRoute(req, userLocation) ==
  << getPickupCoords(req, userLocation), getDropoffCoords(req, userLocation) >>

getTargetCoordinates(req, userLocation) ==
  IF req.status \in {PICKED_UP, ARRIVED_DESTINATION}
  THEN IF Truthy(req.dropoffLat) /\ Truthy(req.dropoffLng)
       THEN << req.dropoffLat.v, req.dropoffLng.v >>
       ELSE Shift(getCoordinates(req.hash, userLocation), 100)
  ELSE IF Truthy(req.pickupLat) /\ Truthy(req.pickupLng)
       THEN << req.pickupLat.v, req.pickupLng.v >>
       ELSE getCoordinates(req.hash, userLocation)

\* CustomerView tracking effect: pickup and dropoff of the tracked request
trackingPickup(req, userLocation) ==
  IF Truthy(req.pickupLat) /\ Truthy(req.pickupLng)
  THEN << req.pickupLat.v, req.pickupLng.v >>
  ELSE Shift(userLocation, -50)

trackingDropoff(req, userLocation) ==
  IF Truthy(req.dropoffLat) /\ Truthy(req.dropoffLng)
  THEN << req.dropoffLat.v, req.dropoffLng.v >>
  ELSE Shift(userLocation, 50)

\* variant: the arrived leg is still drawn from pickup to dropoff
trackingLeg_ArrivedKeepsLeg(req, userLocation) ==
  LET pickup == trackingPickup(req, userLocation)
      dropoff == trackingDropoff(req, userLocation)
  IN IF req.status = DELIVERED THEN << >>
     ELSE IF req.status \in {PICKED_UP, ARRIVED_DESTINATION} THEN << pickup, dropoff >>
     ELSE << Shift(pickup, -100), pickup >>

\* CustomerView tracking effect: << startPos, endPos >> of the simulation,
\* nothing for a DELIVERED request (the effect returns before the timer)
trackingLeg(req, userLocation) ==
  LET pickup == trackingPickup(req, userLocation)
      dropoff == trackingDropoff(req, userLocation)
  IN IF req.status = DELIVERED THEN << >>
     ELSE IF req.status = PICKED_UP THEN << pickup, dropoff >>
     ELSE IF req.status = ARRIVED_DESTINATION THEN << dropoff, dropoff >>
     ELSE << Shift(pickup, -100), pickup >>

IdleLeg ==
  /\ legIn = [ status |-> PENDING, hash |-> 49,
               pickupLat |-> Undef, pickupLng |-> Undef,
               dropoffLat |-> Undef, dropoffLng |-> Undef,
               courierLocation |-> << DEFAULT_LAT, DEFAULT_LNG >>,
               customerLocation |-> << DEFAULT_LAT, DEFAULT_LNG >> ]
  /\ legOut = NoLegOut

ApplyDrawRoute ==
  /\ "route" \notin legOut.done
  /\ legOut' = [ legOut EXCEPT !.done = @ \cup {"route"},
                               !.route = drawRoute(legIn, legIn.courierLocation) ]
  /\ UNCHANGED legIn
  /\ UNCHANGED notLeg

ApplyTargetCoordinates ==
  /\ "target" \notin legOut.done
  /\ legOut' = [ legOut EXCEPT !.done = @ \cup {"target"},
                               !.target = getTargetCoordinates(legIn, legIn.courierLocation) ]
  /\ UNCHANGED legIn
  /\ UNCHANGED notLeg

ApplyTrackingLeg ==
  /\ "track" \notin legOut.done
  /\ legOut' = [ legOut EXCEPT !.done = @ \cup {"track"},
                               !.track = trackingLeg(legIn, legIn.customerLocation) ]
  /\ UNCHANGED legIn
  /\ UNCHANGED notLeg

\* =================================================================
\* geocodeAddress (src/services/geminiService.ts).  Strings are sequences
\* of characters; a query is the tuple of the parts the template joins.
\* =================================================================

Whitespace == { " " }

RECURSIVE TrimLeft(_)
TrimLeft(str) ==
  IF str # << >> /\ Head(str) \in Whitespace THEN TrimLeft(Tail(str)) ELSE str

RECURSIVE TrimRight(_)
TrimRight(str) ==
  IF str # << >> /\ str[Len(str)] \in Whitespace
  THEN TrimRight(SubSeq(str, 1, Len(str) - 1)) ELSE str

\* String.prototype.trim
Trim(str) == TrimRight(TrimLeft(str))

cleanStreet == Trim(geoIn.street)

cleanNum == Trim(geoIn.number)

cleanCity == Trim(geoIn.city)

cleanNeighborhood == Trim(geoIn.neighborhood)

\* a non-empty string is truthy
NonEmptyStr(str) == str # << >>

\* variant: the strict attempt also asks for the neighborhood
TierEnabled_StrictNeedsNeighborhood(k) ==
  IF k = 1 THEN NonEmptyStr(cleanStreet) /\ NonEmptyStr(cleanNum)
                /\ NonEmptyStr(cleanNeighborhood) /\ NonEmptyStr(cleanCity)
  ELSE IF k = 2 THEN NonEmptyStr(cleanStreet) /\ NonEmptyStr(cleanCity)
  ELSE IF k = 3 THEN NonEmptyStr(cleanNeighborhood) /\ NonEmptyStr(cleanCity)
  ELSE NonEmptyStr(cleanCity)

\* variant: the neighborhood attempt does not ask for the city
TierEnabled_NeighborhoodWithoutCity(k) ==
  IF k = 1 THEN NonEmptyStr(cleanStreet) /\ NonEmptyStr(cleanNum) /\ NonEmptyStr(cleanCity)
  ELSE IF k = 2 THEN NonEmptyStr(cleanStreet) /\ NonEmptyStr(cleanCity)
  ELSE IF k = 3 THEN NonEmptyStr(cleanNeighborhood)
  ELSE NonEmptyStr(cleanCity)

\* the if condition of ATTEMPT k
TierEnabled(k) ==
  IF k = 1 THEN NonEmptyStr(cleanStreet) /\ NonEmptyStr(cleanNum) /\ NonEmptyStr(cleanCity)
  ELSE IF k = 2 THEN NonEmptyStr(cleanStreet) /\ NonEmptyStr(cleanCity)
  ELSE IF k = 3 THEN NonEmptyStr(cleanNeighborhood) /\ NonEmptyStr(cleanCity)
  ELSE NonEmptyStr(cleanCity)

\* the query of ATTEMPT k (the template adds ", Rio Grande do Sul, Brasil")
TierQuery(k) ==
  IF k = 1 THEN << cleanStreet, cleanNum, cleanCity >>
  ELSE IF k = 2 THEN << cleanStreet, cleanCity >>
  ELSE IF k = 3 THEN << cleanNeighborhood, cleanCity >>
  ELSE << cleanCity >>

\* the precision each ATTEMPT tags its result with
TierPrecision(k) ==
  IF k = 1 THEN "exact"
  ELSE IF k = 2 THEN "street"
  ELSE IF k = 3 THEN "neighborhood"
  ELSE "city"

\* parseFloat on the decimal strings the service sends, in 0.0001 degree
parseFloat(str) ==
  IF str = "-29.7" THEN -297000
  ELSE IF str = "-53.8" THEN -538000
  ELSE IF str = "-30.03" THEN -300300
  ELSE IF str = "-51.23" THEN -512300
  ELSE 0

\* what one fetch can come to: a transport or parse error, an empty list,
\* or a list whose first element is a place
SvcError == [ kind |-> "error", lat |-> "", lon |-> "", display_name |-> "" ]

SvcEmpty == [ kind |-> "empty", lat |-> "", lon |-> "", display_name |-> "" ]

SvcPlaces ==
  { [ kind |-> "match", lat |-> "-29.7", lon |-> "-53.8", display_name |-> "A" ],
    [ kind |-> "match", lat |-> "-30.03", lon |-> "-51.23", display_name |-> "B" ] }

SvcOutcomes == { SvcError, SvcEmpty } \cup SvcPlaces

\* the argument values tried: empty, blank, and a name with a blank after it
GeoFields == { << >>, << " " >>, << "a", " " >> }

GeoInputs ==
  [ street : GeoFields, number : GeoFields,
    neighborhood : GeoFields, city : GeoFields ]

\* null, the value geocodeAddress returns when no attempt found a place
NotFound ==
  [ found |-> FALSE, lat |-> 0, lng |-> 0, display_name |-> "", precision |-> "" ]

\* the promise has not settled yet
NoResult ==
  [ found |-> FALSE, lat |-> 0, lng |-> 0, display_name |-> "", precision |-> "unsettled" ]

\* the promise was rejected: an exception left geocodeAddress
Rejected ==
  [ found |-> FALSE, lat |-> 0, lng |-> 0, display_name |-> "", precision |-> "rejected" ]

\* variant: doFetch without its try/catch, the error reaches the caller
doFetch_NoCatch(outcome) == outcome

\* doFetch: data[0] when the list has an element; null on an empty list
\* and, through the catch, on an error
doFetch(outcome) == IF outcome.kind = "match" THEN outcome ELSE SvcEmpty

IdleGeo ==
  /\ geoIn = [ street |-> << >>, number |-> << >>,
               neighborhood |-> << >>, city |-> << >> ]
  /\ geoSvc = [ k \in 1..4 |-> SvcEmpty ]
  /\ geoPc = 0
  /\ geoFlight = {}
  /\ geoLog = << >>
  /\ geoResult = NoResult

\* an ATTEMPT whose condition is false is passed over
GeoSkip ==
  /\ geoPc \in 1..4
  /\ geoFlight = {}
  /\ ~TierEnabled(geoPc)
  /\ geoPc' = geoPc + 1
  /\ UNCHANGED << geoIn, geoSvc, geoFlight, geoLog, geoResult >>
  /\ UNCHANGED notGeo

\* await doFetch(query): the request leaves
GeoFetch ==
  /\ geoPc \in 1..4
  /\ geoFlight = {}
  /\ TierEnabled(geoPc)
  /\ geoFlight' = geoFlight \cup {geoPc}
  /\ geoLog' = Append(geoLog, [ tier |-> geoPc, query |-> TierQuery(geoPc) ])
  /\ UNCHANGED << geoIn, geoSvc, geoPc, geoResult >>
  /\ UNCHANGED notGeo

\* variant: a match is recorded but the later attempts are still made
GeoSettle_GoesOnAfterMatch ==
  /\ \E k \in geoFlight :
       LET result == doFetch(geoSvc[k])
       IN /\ IF result.kind = "match" /\ ~geoResult.found
             THEN geoResult' = [ found |-> TRUE,
                                 lat |-> parseFloat(result.lat),
                                 lng |-> parseFloat(result.lon),
                                 display_name |-> result.display_name,
                                 precision |-> TierPrecision(k) ]
             ELSE UNCHANGED geoResult
          /\ geoPc' = IF k = 4 /\ (geoResult.found \/ result.kind = "match")
                      THEN 6 ELSE k + 1
          /\ geoFlight' = geoFlight \ {k}
  /\ UNCHANGED << geoIn, geoSvc, geoLog >>
  /\ UNCHANGED notGeo

\* the awaited fetch settles: a result is returned with the attempt's
\* precision, otherwise the call goes on to the next ATTEMPT; a doFetch
\* that threw would reject the whole call (no ATTEMPT has a try around it)
GeoSettle ==
  /\ \E k \in geoFlight :
       LET result == doFetch(geoSvc[k])
       IN /\ IF result.kind = "error"
             THEN /\ geoResult' = Rejected
                  /\ geoPc' = 6
             ELSE IF result.kind = "match"
             THEN /\ geoResult' = [ found |-> TRUE,
                                    lat |-> parseFloat(result.lat),
                                    lng |-> parseFloat(result.lon),
                                    display_name |-> result.display_name,
                                    precision |-> TierPrecision(k) ]
                  /\ geoPc' = 6
             ELSE /\ geoPc' = k + 1
                  /\ UNCHANGED geoResult
          /\ geoFlight' = geoFlight \ {k}
  /\ UNCHANGED << geoIn, geoSvc, geoLog >>
  /\ UNCHANGED notGeo

\* return null
GeoReturnNull ==
  /\ geoPc = 5
  /\ geoPc' = 6
  /\ geoResult' = NotFound
  /\ UNCHANGED << geoIn, geoSvc, geoFlight, geoLog >>
  /\ UNCHANGED notGeo

\* =================================================================
\* The order form of CustomerView (src/services/geminiService.ts):
\* the address inputs, handleValidateAddress and handleSubmit.
\*
\* The three other required texts (itemDescription, recipientName,
\* recipientPhone) are one flag, otherFields.  The modal can always be
\* opened again and keeps formData, so isCreatingOrder is left out, as are
\* the two spinners.  One handleSubmit runs at a time (the submit Button
\* shows isSubmitting).
\*
\* The geocoding service knows a set of place names (geoKnown): a query
\* has a place when all its parts are known names; any single lookup may
\* also fail.
\* =================================================================

\* geocodeAddress as a function of its arguments and of what the service
\* answers to each ATTEMPT
geocodeAddress(in, svc) ==
  LET street == Trim(in.street)
      num == Trim(in.number)
      city == Trim(in.city)
      neighborhood == Trim(in.neighborhood)
      attempt == << NonEmptyStr(street) /\ NonEmptyStr(num) /\ NonEmptyStr(city),
                    NonEmptyStr(street) /\ NonEmptyStr(city),
                    NonEmptyStr(neighborhood) /\ NonEmptyStr(city),
                    NonEmptyStr(city) >>
      hits == { k \in 1..4 : attempt[k] /\ doFetch(svc[k]).kind = "match" }
  IN IF hits = {} THEN NotFound
     ELSE LET k == CHOOSE t \in hits : \A u \in hits : t <= u
          IN [ found |-> TRUE,
               lat |-> parseFloat(svc[k].lat),
               lng |-> parseFloat(svc[k].lon),
               display_name |-> svc[k].display_name,
               precision |-> TierPrecision(k) ]

\* the query geocodeAddress builds for ATTEMPT k on the arguments in
QueryOf(k, in) ==
  IF k = 1 THEN << Trim(in.street), Trim(in.number), Trim(in.city) >>
  ELSE IF k = 2 THEN << Trim(in.street), Trim(in.city) >>
  ELSE IF k = 3 THEN << Trim(in.neighborhood), Trim(in.city) >>
  ELSE << Trim(in.city) >>

\* the place the service has under a name
PlaceNamed(name) ==
  IF name = << "a" >>
  THEN [ kind |-> "match", lat |-> "-29.7", lon |-> "-53.8", display_name |-> "A" ]
  ELSE [ kind |-> "match", lat |-> "-30.03", lon |-> "-51.23", display_name |-> "B" ]

\* the service's answer to a query when the lookup does not fail
ServiceAnswer(query) ==
  IF \A i \in 1..Len(query) : query[i] \in geoKnown
  THEN PlaceNamed(query[1]) ELSE SvcEmpty

\* what a call of geocodeAddress on the arguments in can return
GeocodeResults(in) ==
  { geocodeAddress(in, svc) :
      svc \in [ 1..4 -> { SvcError } ] \cup
              { [ k \in 1..4 |-> IF k \in failed THEN SvcError
                                 ELSE ServiceAnswer(QueryOf(k, in)) ] :
                  failed \in SUBSET (1..4) } }

\* the texts typed into an address input
FormTexts == { << "a" >>, << "b" >> }

PlaceNames == { << "a" >>, << "b" >> }

AddressTypes == { "pickup", "dropoff" }

AddressFields == { "street", "number", "neighborhood", "city" }

NoAddress == [ street |-> << >>, number |-> << >>,
               neighborhood |-> << >>, city |-> << >> ]

\* the initial value of the formData state hook, also the value handleSubmit
\* resets it to
EmptyForm ==
  [ otherFields |-> FALSE,
    pickupStreet |-> << >>, pickupNumber |-> << >>,
    pickupNeighborhood |-> << >>, pickupCity |-> << >>,
    dropoffStreet |-> << >>, dropoffNumber |-> << >>,
    dropoffNeighborhood |-> << >>, dropoffCity |-> << >>,
    pickupLat |-> Undef, pickupLng |-> Undef,
    dropoffLat |-> Undef, dropoffLng |-> Undef ]

\* a form with every required text typed in and no coordinate stored
FilledForm ==
  [ EmptyForm EXCEPT !.otherFields = TRUE,
      !.pickupStreet = << "a" >>, !.pickupNumber = << "a" >>,
      !.pickupNeighborhood = << "a" >>, !.pickupCity = << "a" >>,
      !.dropoffStreet = << "a" >>, !.dropoffNumber = << "a" >>,
      !.dropoffNeighborhood = << "a" >>, !.dropoffCity = << "a" >> ]

\* the four texts of one address, as handleValidateAddress reads them
AddressOf(fd, type) ==
  IF type = "pickup"
  THEN [ street |-> fd.pickupStreet, number |-> fd.pickupNumber,
         neighborhood |-> fd.pickupNeighborhood, city |-> fd.pickupCity ]
  ELSE [ street |-> fd.dropoffStreet, number |-> fd.dropoffNumber,
         neighborhood |-> fd.dropoffNeighborhood, city |-> fd.dropoffCity ]

LatOf(fd, type) == IF type = "pickup" THEN fd.pickupLat ELSE fd.dropoffLat

LngOf(fd, type) == IF type = "pickup" THEN fd.pickupLng ELSE fd.dropoffLng

\* { ...prev, [type + 'Lat']: lat, [type + 'Lng']: lng }
WithCoords(fd, type, lat, lng) ==
  IF type = "pickup"
  THEN [ fd EXCEPT !.pickupLat = lat, !.pickupLng = lng ]
  ELSE [ fd EXCEPT !.dropoffLat = lat, !.dropoffLng = lng ]

\* the onChange of an address input: the text is stored; the street, number
\* and city inputs also set the address's latitude to undefined, the
\* neighborhood input does not
onChange(fd, type, field, value) ==
  LET typed ==
        IF type = "pickup"
        THEN IF field = "street" THEN [ fd EXCEPT !.pickupStreet = value ]
             ELSE IF field = "number" THEN [ fd EXCEPT !.pickupNumber = value ]
             ELSE IF field = "neighborhood" THEN [ fd EXCEPT !.pickupNeighborhood = value ]
             ELSE [ fd EXCEPT !.pickupCity = value ]
        ELSE IF field = "street" THEN [ fd EXCEPT !.dropoffStreet = value ]
             ELSE IF field = "number" THEN [ fd EXCEPT !.dropoffNumber = value ]
             ELSE IF field = "neighborhood" THEN [ fd EXCEPT !.dropoffNeighborhood = value ]
             ELSE [ fd EXCEPT !.dropoffCity = value ]
  IN IF field = "neighborhood" THEN typed
     ELSE IF type = "pickup" THEN [ typed EXCEPT !.pickupLat = Undef ]
     ELSE [ typed EXCEPT !.dropoffLat = Undef ]

NoSubmit ==
  [ pc |-> "idle", form |-> EmptyForm,
    finalPickupLat |-> Undef, finalPickupLng |-> Undef,
    finalDropoffLat |-> Undef, finalDropoffLng |-> Undef,
    pickupSrc |-> NoAddress, dropoffSrc |-> NoAddress ]

IdleForm ==
  /\ formData = EmptyForm
  /\ coordFrom = [ t \in AddressTypes |-> NoAddress ]
  /\ validating = {}
  /\ sub = NoSubmit
  /\ formOut = << >>
  /\ edits = 0
  /\ geoKnown = PlaceNames

\* the user types into an address input
EditAddress ==
  /\ edits < MaxEdits
  /\ \E type \in AddressTypes, field \in AddressFields, value \in FormTexts :
       /\ value # AddressOf(formData, type)[field]
       /\ formData' = onChange(formData, type, field, value)
  /\ edits' = edits + 1
  /\ UNCHANGED << coordFrom, validating, sub, formOut, geoKnown >>
  /\ UNCHANGED dispatchVars
  /\ UNCHANGED notForm

\* the user fills in or empties the three other required texts
EditOther ==
  /\ edits < MaxEdits
  /\ formData' = [ formData EXCEPT !.otherFields = ~@ ]
  /\ edits' = edits + 1
  /\ UNCHANGED << coordFrom, validating, sub, formOut, geoKnown >>
  /\ UNCHANGED dispatchVars
  /\ UNCHANGED notForm

\* onBlur of a street, number or city input: handleValidateAddress up to
\* its await; with an empty city it returns at once
handleValidateAddress(type) ==
  /\ AddressOf(formData, type).city # << >>
  /\ Cardinality(validating) < MaxValidating
  /\ [ type |-> type, args |-> AddressOf(formData, type) ] \notin validating
  /\ validating' = validating \cup { [ type |-> type, args |-> AddressOf(formData, type) ] }
  /\ UNCHANGED << formData, coordFrom, sub, formOut, edits, geoKnown >>
  /\ UNCHANGED dispatchVars
  /\ UNCHANGED notForm

\* handleValidateAddress after its await: the result's coordinate is stored,
\* or the stored one is set to undefined when there is no result
ValidateSettle ==
  /\ \E call \in validating : \E result \in GeocodeResults(call.args) :
       /\ validating' = validating \ { call }
       /\ IF result.found
          THEN /\ formData' = WithCoords(formData, call.type,
                                         Num(result.lat), Num(result.lng))
               /\ coordFrom' = [ coordFrom EXCEPT ![call.type] = call.args ]
          ELSE /\ formData' = WithCoords(formData, call.type, Undef, Undef)
               /\ UNCHANGED coordFrom
  /\ UNCHANGED << sub, formOut, edits, geoKnown >>
  /\ UNCHANGED dispatchVars
  /\ UNCHANGED notForm

\* the required texts handleSubmit checks
RequiredFilled(fd) ==
  /\ fd.otherFields
  /\ fd.pickupStreet # << >> /\ fd.pickupNumber # << >> /\ fd.pickupCity # << >>
  /\ fd.dropoffStreet # << >> /\ fd.dropoffNumber # << >> /\ fd.dropoffCity # << >>

\* the argument of onRequestCreate; the two Src fields are history: the
\* geocodeAddress arguments each coordinate was resolved from
Payload(s) ==
  [ pickupAddress |-> AddressOf(s.form, "pickup"),
    dropoffAddress |-> AddressOf(s.form, "dropoff"),
    pickupLat |-> s.finalPickupLat, pickupLng |-> s.finalPickupLng,
    dropoffLat |-> s.finalDropoffLat, dropoffLng |-> s.finalDropoffLng,
    pickupSrc |-> s.pickupSrc, dropoffSrc |-> s.dropoffSrc ]

\* the end of handleSubmit: onRequestCreate (App.handleCreateRequest puts
\* the request in front of the collection), then the form is reset
SubmitCreate(s) ==
  /\ requests' = << CreatedRequest(Payload(s), created) >> \o requests
  /\ created' = created + 1
  /\ stale' = [ c \in Couriers |-> TRUE ]
  /\ formOut' = Append(formOut, Payload(s))
  /\ formData' = EmptyForm
  /\ sub' = NoSubmit
  /\ UNCHANGED << touched, view, isOnline, incomingOffer, ignoredOffers,
                  activeDelivery, pending, locPending >>

\* handleSubmit up to its first await, or to its end when there is none;
\* with a required text missing it alerts and returns
handleSubmit ==
  /\ sub.pc = "idle"
  /\ created < MaxCreate
  /\ RequiredFilled(formData)
  /\ LET s == [ pc |-> "idle", form |-> formData,
                finalPickupLat |-> formData.pickupLat,
                finalPickupLng |-> formData.pickupLng,
                finalDropoffLat |-> formData.dropoffLat,
                finalDropoffLng |-> formData.dropoffLng,
                pickupSrc |-> coordFrom["pickup"],
                dropoffSrc |-> coordFrom["dropoff"] ]
     IN IF ~Truthy(s.finalPickupLat) \/ ~Truthy(s.finalPickupLng)
        THEN /\ sub' = [ s EXCEPT !.pc = "pickup" ]
             /\ UNCHANGED << formData, formOut >>
             /\ UNCHANGED dispatchVars
        ELSE IF ~Truthy(s.finalDropoffLat) \/ ~Truthy(s.finalDropoffLng)
        THEN /\ sub' = [ s EXCEPT !.pc = "dropoff" ]
             /\ UNCHANGED << formData, formOut >>
             /\ UNCHANGED dispatchVars
        ELSE /\ SubmitCreate(s)
  /\ UNCHANGED << coordFrom, validating, edits, geoKnown >>
  /\ UNCHANGED notForm

\* handleSubmit after the geocodeAddress call for the pickup address
SubmitPickupSettle ==
  /\ sub.pc = "pickup"
  /\ \E pResult \in GeocodeResults(AddressOf(sub.form, "pickup")) :
       IF ~pResult.found
       THEN /\ sub' = NoSubmit
            /\ UNCHANGED << formData, formOut >>
            /\ UNCHANGED dispatchVars
       ELSE LET s == [ sub EXCEPT !.finalPickupLat = Num(pResult.lat),
                                  !.finalPickupLng = Num(pResult.lng),
                                  !.pickupSrc = AddressOf(sub.form, "pickup") ]
            IN IF ~Truthy(s.finalDropoffLat) \/ ~Truthy(s.finalDropoffLng)
               THEN /\ sub' = [ s EXCEPT !.pc = "dropoff" ]
                    /\ UNCHANGED << formData, formOut >>
                    /\ UNCHANGED dispatchVars
               ELSE /\ SubmitCreate(s)
  /\ UNCHANGED << coordFrom, validating, edits, geoKnown >>
  /\ UNCHANGED notForm

\* handleSubmit after the geocodeAddress call for the dropoff address
SubmitDropoffSettle ==
  /\ sub.pc = "dropoff"
  /\ \E dResult \in GeocodeResults(AddressOf(sub.form, "dropoff")) :
       IF ~dResult.found
       THEN /\ sub' = NoSubmit
            /\ UNCHANGED << formData, formOut >>
            /\ UNCHANGED dispatchVars
       ELSE /\ SubmitCreate([ sub EXCEPT !.finalDropoffLat = Num(dResult.lat),
                                         !.finalDropoffLng = Num(dResult.lng),
                                         !.dropoffSrc = AddressOf(sub.form, "dropoff") ])
  /\ UNCHANGED << coordFrom, validating, edits, geoKnown >>
  /\ UNCHANGED notForm

\* =================================================================
\* Route computation of CourierView: generateSmartRouteFallback, fetchRoute
\* and the part of drawRoute that chooses between them.  A point is
\* << lat, lng >>; the routing service sends GeoJSON points << lng, lat >>.
\* =================================================================

Abs(x) == IF x < 0 THEN -x ELSE x

\* variant: a tie of the two deltas goes latitude first
generateSmartRouteFallback_TieGoesLatFirst(start, end) ==
  LET goLatFirst == Abs(start[1] - end[1]) >= Abs(start[2] - end[2])
  IN IF goLatFirst
     THEN << start, << end[1], start[2] >>, end >>
     ELSE << start, << start[1], end[2] >>, end >>

generateSmartRouteFallback(start, end) ==
  LET goLatFirst == Abs(start[1] - end[1]) > Abs(start[2] - end[2])
  IN IF goLatFirst
     THEN << start, << end[1], start[2] >>, end >>
     ELSE << start, << start[1], end[2] >>, end >>

\* null, the value fetchRoute returns without a route
NoRoute == [ ok |-> FALSE, points |-> << >> ]

\* what the routing service can come to: a transport or parse error, or a
\* JSON body with its code, its routes (absent, or a list of none or one),
\* the route's geometry (absent or present) and its coordinates
RouteWaypoints == { << >>, << << 2, 1 >> >>, << << 0, 0 >>, << 1, 0 >>, << 2, 1 >> >> }

RouteOutcomes ==
  [ kind : { "error" }, code : { "" }, hasRoutes : { FALSE }, nRoutes : { 0 },
    hasGeometry : { FALSE }, coordinates : { << >> } ]
  \cup
  [ kind : { "json" }, code : { "Ok", "NoRoute" }, hasRoutes : { FALSE },
    nRoutes : { 0 }, hasGeometry : { FALSE }, coordinates : { << >> } ]
  \cup
  [ kind : { "json" }, code : { "Ok", "NoRoute" }, hasRoutes : { TRUE },
    nRoutes : { 0 }, hasGeometry : { FALSE }, coordinates : { << >> } ]
  \cup
  [ kind : { "json" }, code : { "Ok", "NoRoute" }, hasRoutes : { TRUE },
    nRoutes : { 1 }, hasGeometry : { FALSE }, coordinates : { << >> } ]
  \cup
  [ kind : { "json" }, code : { "Ok", "NoRoute" }, hasRoutes : { TRUE },
    nRoutes : { 1 }, hasGeometry : { TRUE }, coordinates : RouteWaypoints ]

\* fetchRoute: the route's points turned from [lng, lat] to [lat, lng] when
\* the body says Ok and has a first route; null otherwise, and null through
\* the catch when fetch or json throws or the route has no geometry
fetchRoute(outcome) ==
  IF outcome.kind = "error" THEN NoRoute
  ELSE IF outcome.code = "Ok" /\ outcome.hasRoutes /\ outcome.nRoutes > 0
  THEN IF ~outcome.hasGeometry THEN NoRoute
       ELSE [ ok |-> TRUE,
              points |-> [ i \in 1..Len(outcome.coordinates) |->
                             << outcome.coordinates[i][2], outcome.coordinates[i][1] >> ] ]
  ELSE NoRoute

\* variant: only a null route falls back, an empty one is drawn
routePoints_EmptyNotReplaced(start, end, outcome) ==
  LET fetched == fetchRoute(outcome)
  IN IF ~fetched.ok
     THEN generateSmartRouteFallback(start, end)
     ELSE fetched.points

\* drawRoute: routePoints, the fetched route or, when it is null or empty,
\* the fallback
routePoints(start, end, outcome) ==
  LET fetched == fetchRoute(outcome)
  IN IF ~fetched.ok \/ Len(fetched.points) = 0
     THEN generateSmartRouteFallback(start, end)
     ELSE fetched.points

\* the origins and destinations tried
RouteEnds == { << 0, 0 >>, << 1, 2 >>, << 2, 1 >>, << -3, -3 >>, << 10, 10 >> }

NoRouteOut == [ done |-> {}, fallback |-> << >>, route |-> << >> ]

IdleRoute ==
  /\ routeIn = [ start |-> << 0, 0 >>, end |-> << 0, 0 >>,
                 outcome |-> [ kind |-> "error", code |-> "", hasRoutes |-> FALSE,
                               nRoutes |-> 0, hasGeometry |-> FALSE,
                               coordinates |-> << >> ] ]
  /\ routeOut = NoRouteOut

ApplyFallback ==
  /\ "fallback" \notin routeOut.done
  /\ routeOut' = [ routeOut EXCEPT
                     !.done = @ \cup { "fallback" },
                     !.fallback = generateSmartRouteFallback(routeIn.start, routeIn.end) ]
  /\ UNCHANGED routeIn
  /\ UNCHANGED notRoute

ApplyRoutePoints ==
  /\ "route" \notin routeOut.done
  /\ routeOut' = [ routeOut EXCEPT
                     !.done = @ \cup { "route" },
                     !.route = routePoints(routeIn.start, routeIn.end, routeIn.outcome) ]
  /\ UNCHANGED routeIn
  /\ UNCHANGED notRoute

\* =================================================================
\* The Real Route Drawing effect of CourierView: on every change of the
\* offer, the active delivery, isOnline or userLocation it removes the
\* polyline it holds and calls drawRoute, which awaits fetchRoute and then
\* puts a polyline on the map.  The map is mounted.
\* =================================================================

NoTarget == "none"

DrawTargets == { "1", "2" }

\* startCoords and endCoords of a target
DrawEnds(target) ==
  IF target = "1" THEN << << 0, 0 >>, << 2, 1 >> >>
  ELSE << << 10, 10 >>, << 1, 2 >> >>

\* what the routing service answers to a drawRoute call: an error or a route
DrawAnswers ==
  { o \in RouteOutcomes :
      \/ o.kind = "error"
      \/ o.code = "Ok" /\ o.hasGeometry /\ Len(o.coordinates) = 3 }

\* L.polyline(routePoints, ...).addTo(map)
Polyline(layer, target, points) ==
  [ layer |-> layer, target |-> target, points |-> points ]

IdleDraw ==
  /\ drawTarget = NoTarget
  /\ drawPending = FALSE
  /\ drawFlight = {}
  /\ mapLayers = {}
  /\ routeLayerRef = 0
  /\ drawCount = 0

\* a render that changes one of the effect's dependencies: the target is
\* another request, none, or the same one (userLocation changed)
TargetChange(target) ==
  /\ ~drawPending
  /\ drawTarget' = target
  /\ drawPending' = TRUE
  /\ UNCHANGED << drawFlight, mapLayers, routeLayerRef, drawCount >>
  /\ UNCHANGED notDraw

\* the effect: routeLayerRef.current.remove(), then drawRoute() up to its
\* await
RunDrawEffect ==
  /\ drawPending
  /\ drawPending' = FALSE
  /\ mapLayers' = { l \in mapLayers : l.layer # routeLayerRef }
  /\ routeLayerRef' = 0
  /\ IF drawTarget # NoTarget
     THEN /\ drawCount < MaxDraws
          /\ drawFlight' = drawFlight \cup
                             { [ call |-> drawCount + 1, target |-> drawTarget ] }
          /\ drawCount' = drawCount + 1
     ELSE UNCHANGED << drawFlight, drawCount >>
  /\ UNCHANGED drawTarget
  /\ UNCHANGED notDraw

\* drawRoute after its await: the fetched route or the fallback is drawn
\* and kept in routeLayerRef
DrawSettle ==
  /\ \E call \in drawFlight :
       \E outcome \in DrawAnswers :
         LET ends == DrawEnds(call.target)
             points == routePoints(ends[1], ends[2], outcome)
         IN /\ drawFlight' = drawFlight \ { call }
            /\ IF Len(points) > 0
               THEN /\ mapLayers' = mapLayers \cup
                                      { Polyline(call.call, call.target, points) }
                    /\ routeLayerRef' = call.call
               ELSE UNCHANGED << mapLayers, routeLayerRef >>
  /\ UNCHANGED << drawTarget, drawPending, drawCount >>
  /\ UNCHANGED notDraw

\* =================================================================
\* Tracking of CustomerView (src/services/geminiService.ts): the tracked
\* request, the Tracking Logic effect and the simulation interval it
\* starts.  The browser's active intervals are the set timers; each carries
\* the values its callback closed over and its own progress.
\*
\* progress is in thousandths.  The code adds 0.005 in doubles: the sum of
\* 200 steps is 1.0000000000000007, so the test progress > 1 first
\* succeeds on the 200th tick after a reset (AboveOne).  The marker
\* position is in units of 0.0001 degree / 1000, which keeps the
\* interpolation exact.
\*
\* The request tracked is the first of the collection; its coordinates are
\* those of trackCoords (a seed request has none, a submitted one has
\* them).  A status update reaches the view through App's collection and
\* the re-sync effect (ReSync), which runs after the update has committed.
\* =================================================================

\* progress += 0.005
PROGRESS_STEP == 5

\* 1, in thousandths
ONE == 1000

\* progress > 1, on the sum the doubles give
AboveOne(q) == q >= ONE

TrackedId == "1"

\* the coordinates the tracked request can carry
TrackCoords ==
  { [ pickupLat |-> Undef, pickupLng |-> Undef,
      dropoffLat |-> Undef, dropoffLng |-> Undef ],
    [ pickupLat |-> Num(-297000), pickupLng |-> Num(-538000),
      dropoffLat |-> Num(-296500), dropoffLng |-> Num(-537500) ],
    [ pickupLat |-> Undef, pickupLng |-> Undef,
      dropoffLat |-> Num(100000), dropoffLng |-> Num(100000) ] }

\* the positions the geolocation callback can report
TrackLocations == { << -296000, -537000 >>, << 50, 50 >> }

\* the tracked request as the effect reads it
TrackedRequest(status) ==
  [ id |-> TrackedId, status |-> status,
    pickupLat |-> trackCoords.pickupLat, pickupLng |-> trackCoords.pickupLng,
    dropoffLat |-> trackCoords.dropoffLat, dropoffLng |-> trackCoords.dropoffLng ]

NoMarker == [ on |-> FALSE, lat |-> 0, lng |-> 0 ]

\* L.marker(pos) and setLatLng(pos)
MarkerAt(lat, lng) == [ on |-> TRUE, lat |-> lat, lng |-> lng ]

\* curLat and curLng of a tick
Interpolate(startPos, endPos, progress) ==
  << startPos[1] * ONE + (endPos[1] - startPos[1]) * progress,
     startPos[2] * ONE + (endPos[2] - startPos[2]) * progress >>

IdleTrack ==
  /\ trackingRequest = Null
  /\ trackCoords = [ pickupLat |-> Undef, pickupLng |-> Undef,
                     dropoffLat |-> Undef, dropoffLng |-> Undef ]
  /\ custLocation = << DEFAULT_LAT, DEFAULT_LNG >>
  /\ custLocPending = FALSE
  /\ mapReady = FALSE
  /\ trackEffect = FALSE
  /\ trackCleanup = FALSE
  /\ timers = {}
  /\ simulationRef = 0
  /\ timerCount = 0
  /\ courierMarker = NoMarker

\* onClick of the active order card: setTrackingRequest(activeOrder)
OpenTracking ==
  /\ ~trackEffect
  /\ touched = {}
  /\ trackingRequest = Null
  /\ StatusOf(requests, TrackedId) # DELIVERED
  /\ trackingRequest' = TrackedRequest(StatusOf(requests, TrackedId))
  /\ trackEffect' = TRUE
  /\ UNCHANGED << trackCoords, custLocation, custLocPending, mapReady,
                  trackCleanup, timers, simulationRef, timerCount, courierMarker >>
  /\ UNCHANGED dispatchVars
  /\ UNCHANGED notTrack

\* onClick of the back button: setTrackingRequest(null)
CloseTracking ==
  /\ ~trackEffect
  /\ touched = {}
  /\ trackingRequest # Null
  /\ trackingRequest' = Null
  /\ trackEffect' = TRUE
  /\ UNCHANGED << trackCoords, custLocation, custLocPending, mapReady,
                  trackCleanup, timers, simulationRef, timerCount, courierMarker >>
  /\ UNCHANGED dispatchVars
  /\ UNCHANGED notTrack

\* App.handleUpdateStatus on the tracked request, with any status, while
\* the customer's view is mounted
RequestUpdated(status) ==
  /\ ~trackEffect
  /\ touched = {}
  /\ requests' = MapStatus(requests, TrackedId, status)
  /\ touched' = { TrackedId }
  /\ stale' = [ c \in Couriers |-> TRUE ]
  /\ UNCHANGED << created, view, isOnline, incomingOffer, ignoredOffers,
                  activeDelivery, pending, locPending >>
  /\ UNCHANGED trackVars
  /\ UNCHANGED notTrack

\* variant: the view keeps the object it was given when tracking opened
ReSync_KeepsCopy ==
  /\ touched # {}
  /\ touched' = {}
  /\ UNCHANGED << requests, created, view, stale, isOnline, incomingOffer,
                  ignoredOffers, activeDelivery, pending, locPending >>
  /\ UNCHANGED trackVars
  /\ UNCHANGED notTrack

\* the re-sync effect, deps [requests]: the tracked request becomes the
\* object the collection now holds under its id.  When no update replaced
\* that object (a creation, an update of another request) setTrackingRequest
\* gets the object it already has and nothing is rendered again.
ReSync ==
  /\ touched # {}
  /\ touched' = {}
  /\ LET updated == IF trackingRequest = Null THEN Null
                    ELSE ById(requests, trackingRequest.id)
     IN IF trackingRequest # Null /\ updated # Null
           /\ trackingRequest.id \in touched
        THEN /\ trackingRequest' = TrackedRequest(updated.status)
             /\ trackEffect' = TRUE
        ELSE UNCHANGED << trackingRequest, trackEffect >>
  /\ UNCHANGED << requests, created, view, stale, isOnline, incomingOffer,
                  ignoredOffers, activeDelivery, pending, locPending >>
  /\ UNCHANGED << trackCoords, custLocation, custLocPending, mapReady,
                  trackCleanup, timers, simulationRef, timerCount, courierMarker >>
  /\ UNCHANGED notTrack

\* the getCurrentPosition callback: setUserLocation
CustomerGeolocated ==
  /\ ~trackEffect
  /\ touched = {}
  /\ custLocPending
  /\ \E loc \in TrackLocations : custLocation' = loc
  /\ custLocPending' = FALSE
  /\ trackEffect' = TRUE
  /\ UNCHANGED << trackingRequest, trackCoords, mapReady, trackCleanup, timers,
                  simulationRef, timerCount, courierMarker >>
  /\ UNCHANGED dispatchVars
  /\ UNCHANGED notTrack

\* clearInterval(simulationRef.current)
Cleared(active) == { t \in active : t.id # simulationRef }

\* variant: progress outlives the effect run (the interval goes on from
\* where the one before it stood)
NewInterval_KeepsProgress(id, leg, status) ==
  [ id |-> id, startPos |-> leg[1], endPos |-> leg[2], status |-> status,
    progress |-> IF timers = {} THEN 0 ELSE (CHOOSE t \in timers : TRUE).progress ]

\* let progress = 0; window.setInterval(...): the interval, with what its
\* callback closes over
NewInterval(id, leg, status) ==
  [ id |-> id, startPos |-> leg[1], endPos |-> leg[2], status |-> status,
    progress |-> 0 ]

\* variant: the id setInterval returns is not kept in simulationRef
RunTrackingEffect_IdNotKept ==
  /\ trackEffect
  /\ trackEffect' = FALSE
  /\ LET afterCleanup == IF trackCleanup THEN Cleared(timers) ELSE timers
     IN IF trackingRequest = Null \/ trackingRequest.status = DELIVERED
        THEN /\ timers' = Cleared(afterCleanup)
             /\ courierMarker' = NoMarker
             /\ trackCleanup' = FALSE
             /\ UNCHANGED << simulationRef, timerCount >>
        ELSE IF mapReady
        THEN LET leg == trackingLeg(trackingRequest, custLocation)
             IN /\ timerCount < MaxTimers
                /\ courierMarker' = IF courierMarker.on THEN courierMarker
                                    ELSE MarkerAt(leg[1][1] * ONE, leg[1][2] * ONE)
                /\ timers' = Cleared(afterCleanup) \cup
                               { NewInterval(timerCount + 1, leg,
                                             trackingRequest.status) }
                /\ UNCHANGED simulationRef
                /\ timerCount' = timerCount + 1
                /\ trackCleanup' = TRUE
        ELSE /\ timers' = afterCleanup
             /\ trackCleanup' = TRUE
             /\ UNCHANGED << courierMarker, simulationRef, timerCount >>
  /\ UNCHANGED << trackingRequest, trackCoords, custLocation, custLocPending, mapReady >>
  /\ UNCHANGED dispatchVars
  /\ UNCHANGED notTrack

\* the Tracking Logic effect, run after a change of trackingRequest or
\* userLocation: first the cleanup the previous run returned, then the body
RunTrackingEffect ==
  /\ trackEffect
  /\ trackEffect' = FALSE
  /\ LET afterCleanup == IF trackCleanup THEN Cleared(timers) ELSE timers
     IN IF trackingRequest = Null \/ trackingRequest.status = DELIVERED
        THEN /\ timers' = Cleared(afterCleanup)
             /\ courierMarker' = NoMarker
             /\ trackCleanup' = FALSE
             /\ UNCHANGED << simulationRef, timerCount >>
        ELSE IF mapReady
        THEN LET leg == trackingLeg(trackingRequest, custLocation)
             IN /\ timerCount < MaxTimers
                /\ courierMarker' = IF courierMarker.on THEN courierMarker
                                    ELSE MarkerAt(leg[1][1] * ONE, leg[1][2] * ONE)
                /\ timers' = Cleared(afterCleanup) \cup
                               { NewInterval(timerCount + 1, leg,
                                             trackingRequest.status) }
                /\ simulationRef' = timerCount + 1
                /\ timerCount' = timerCount + 1
                /\ trackCleanup' = TRUE
        ELSE /\ timers' = afterCleanup
             /\ trackCleanup' = TRUE
             /\ UNCHANGED << courierMarker, simulationRef, timerCount >>
  /\ UNCHANGED << trackingRequest, trackCoords, custLocation, custLocPending, mapReady >>
  /\ UNCHANGED dispatchVars
  /\ UNCHANGED notTrack

\* variant: progress always starts over, also on the arrived leg
NextProgress_AlwaysWraps(t) ==
  LET q == t.progress + PROGRESS_STEP
  IN IF AboveOne(q) THEN 0 ELSE q

\* progress += 0.005; above 1 it becomes 1 on the arrived leg, 0 otherwise
NextProgress(t) ==
  LET q == t.progress + PROGRESS_STEP
  IN IF AboveOne(q)
     THEN IF t.status = ARRIVED_DESTINATION THEN ONE ELSE 0
     ELSE q

\* variant: the marker is moved by the progress before the step
TickPosition_BeforeStep(t) == Interpolate(t.startPos, t.endPos, t.progress)

\* the position a tick of timer t moves the marker to
TickPosition(t) == Interpolate(t.startPos, t.endPos, NextProgress(t))

\* one firing of an active interval
Tick ==
  /\ \E t \in timers :
       /\ timers' = (timers \ { t }) \cup { [ t EXCEPT !.progress = NextProgress(t) ] }
       /\ courierMarker' = IF courierMarker.on
                           THEN MarkerAt(TickPosition(t)[1], TickPosition(t)[2])
                           ELSE courierMarker
  /\ UNCHANGED << trackingRequest, trackCoords, custLocation, custLocPending,
                  mapReady, trackEffect, trackCleanup, simulationRef, timerCount >>
  /\ UNCHANGED dispatchVars
  /\ UNCHANGED notTrack

\* =================================================================
\* The specifications: each part on its own, the other parts idle
\* =================================================================

\* the order form in use: the form empty or filled in, no coordinate
\* stored yet, against a service that knows both names or only one
InitForm ==
  /\ InitDispatch
  /\ IdleDraw
  /\ requests = SeedRequests(0)
  /\ IdleLeg
  /\ IdleGeo
  /\ IdleRoute
  /\ IdleTrack
  /\ formData \in { EmptyForm, FilledForm }
  /\ coordFrom = [ t \in AddressTypes |-> NoAddress ]
  /\ validating = {}
  /\ sub = NoSubmit
  /\ formOut = << >>
  /\ edits = 0
  /\ geoKnown \in { PlaceNames, { << "a" >> } }

NextForm ==
  \/ EditAddress
  \/ EditOther
  \/ \E type \in AddressTypes : handleValidateAddress(type)
  \/ ValidateSettle
  \/ handleSubmit
  \/ SubmitPickupSettle
  \/ SubmitDropoffSettle

SpecForm == InitForm /\ [][NextForm]_vars

\* the route functions applied to any origin, destination and answer
InitRoute ==
  /\ InitDispatch
  /\ IdleDraw
  /\ requests = SeedRequests(0)
  /\ IdleLeg
  /\ IdleGeo
  /\ IdleForm
  /\ IdleTrack
  /\ routeIn \in [ start : RouteEnds, end : RouteEnds, outcome : RouteOutcomes ]
  /\ routeOut = NoRouteOut

NextRoute ==
  \/ ApplyFallback
  \/ ApplyRoutePoints

SpecRoute == InitRoute /\ [][NextRoute]_vars

\* the courier's map with the route effect: the target changes while
\* routes are being fetched
InitDraw ==
  /\ InitDispatch
  /\ requests = SeedRequests(0)
  /\ IdleLeg
  /\ IdleGeo
  /\ IdleForm
  /\ IdleRoute
  /\ IdleTrack
  /\ IdleDraw

NextDraw ==
  \/ \E target \in DrawTargets \cup { NoTarget } : TargetChange(target)
  \/ RunDrawEffect
  \/ DrawSettle

SpecDraw == InitDraw /\ [][NextDraw]_vars

\* the customer's view mounted, tracking closed: any coordinates of the
\* request, the map there or not, the geolocation callback still to come
InitTrack ==
  /\ InitDispatch
  /\ IdleDraw
  /\ requests = SeedRequests(0)
  /\ IdleLeg
  /\ IdleGeo
  /\ IdleForm
  /\ IdleRoute
  /\ trackingRequest = Null
  /\ trackCoords \in TrackCoords
  /\ custLocation = << DEFAULT_LAT, DEFAULT_LNG >>
  /\ custLocPending = TRUE
  /\ mapReady \in BOOLEAN
  /\ trackEffect = TRUE
  /\ trackCleanup = FALSE
  /\ timers = {}
  /\ simulationRef = 0
  /\ timerCount = 0
  /\ courierMarker = NoMarker

NextTrack ==
  \/ OpenTracking
  \/ CloseTracking
  \/ \E status \in DeliveryStatus : RequestUpdated(status)
  \/ ReSync
  \/ CustomerGeolocated
  \/ RunTrackingEffect
  \/ Tick

SpecTrack == InitTrack /\ [][NextTrack]_vars

\* one call of geocodeAddress, on any arguments, against any service
InitGeo ==
  /\ InitDispatch
  /\ IdleDraw
  /\ IdleLeg
  /\ IdleForm
  /\ IdleRoute
  /\ IdleTrack
  /\ geoIn \in GeoInputs
  /\ geoSvc \in [ 1..4 -> SvcOutcomes ]
  /\ geoPc = 1
  /\ geoFlight = {}
  /\ geoLog = << >>
  /\ geoResult = NoResult

NextGeo ==
  \/ GeoSkip
  \/ GeoFetch
  \/ GeoSettle
  \/ GeoReturnNull

SpecGeo == InitGeo /\ [][NextGeo]_vars

\* the three leg derivations applied to any request and locations
InitLeg ==
  /\ InitDispatch
  /\ IdleDraw
  /\ IdleGeo
  /\ IdleForm
  /\ IdleRoute
  /\ IdleTrack
  /\ legIn \in LegInputs
  /\ legOut = NoLegOut

NextLeg ==
  \/ ApplyDrawRoute
  \/ ApplyTargetCoordinates
  \/ ApplyTrackingLeg

SpecLeg == InitLeg /\ [][NextLeg]_vars

\* One courier session over the collection, requests arriving meanwhile
Solo == "c1"

Next ==
  \/ handleCreateRequest
  \/ SessionStep(Solo)

Init ==
  /\ InitDispatch
  /\ IdleLeg
  /\ IdleGeo
  /\ IdleForm
  /\ IdleRoute
  /\ IdleTrack
  /\ IdleDraw

Spec == Init /\ [][Next]_vars

\* The same run, in which React does render a changed prop and does run
\* the effects it has scheduled
SpecLive ==
  /\ Init
  /\ [][Next]_vars
  /\ WF_vars(Deliver(Solo))
  /\ WF_vars(RunEffects(Solo))

\* Two courier sessions over the same collection: the accept race
RaceStep(c) ==
  \/ Deliver(c)
  \/ RunEffects(c)
  \/ handleAcceptOffer(c)
  \/ handleProgressAction(c)

NextRace ==
  \/ handleCreateRequest
  \/ \E c \in Couriers : RaceStep(c)

SpecRace == Init /\ [][NextRace]_vars

\* App's two mutators called directly, with any id and any status
UnknownId == "zz"

\* variant: the update also drops the requests that are DELIVERED
handleUpdateStatus_DropsDelivered(id, status) ==
  /\ requests' = SelectSeq(MapStatus(requests, id, status),
                           LAMBDA r : r.status # DELIVERED)
  /\ touched' = touched \cup ({ id } \cap Ids(requests))
  /\ stale' = [ c \in Couriers |-> TRUE ]
  /\ UNCHANGED << created, view, isOnline, incomingOffer, ignoredOffers,
                  activeDelivery, pending, locPending >>
  /\ UNCHANGED notDispatch

handleUpdateStatus(id, status) ==
  /\ requests' = MapStatus(requests, id, status)
  /\ touched' = touched \cup ({ id } \cap Ids(requests))
  /\ stale' = [ c \in Couriers |-> TRUE ]
  /\ UNCHANGED << created, view, isOnline, incomingOffer, ignoredOffers,
                  activeDelivery, pending, locPending >>
  /\ UNCHANGED notDispatch

NextApi ==
  \/ handleCreateRequest
  \/ \E id \in Ids(requests) \cup {UnknownId}, status \in DeliveryStatus :
       handleUpdateStatus(id, status)

SpecApi == Init /\ [][NextApi]_vars

\* The holders of a request side by side: two courier sessions and the
\* customer's view over the two seed requests, the customer tracking the
\* first one (its map not mounted, so no simulation runs)
InitSync ==
  /\ InitDispatch
  /\ IdleDraw
  /\ requests = SeedRequests(0)
  /\ IdleLeg
  /\ IdleGeo
  /\ IdleForm
  /\ IdleRoute
  /\ IdleTrack

NextSync ==
  \/ \E c \in Couriers : RaceStep(c)
  \/ OpenTracking
  \/ CloseTracking
  \/ ReSync
  \/ RunTrackingEffect

SpecSync == InitSync /\ [][NextSync]_vars

\* Two courier sessions over the two seed requests, with all that bears on
\* the offer: the matcher, accept, decline, the pick from the list
OfferStep(c) ==
  \/ Deliver(c)
  \/ RunEffects(c)
  \/ handleAcceptOffer(c)
  \/ handleDeclineOffer(c)
  \/ handleProgressAction(c)
  \/ pickFromList(c)

NextOffers == \E c \in Couriers : OfferStep(c)

SpecOffers == InitSync /\ [][NextOffers]_vars

\* =================================================================
\* Properties of the dispatch part
\* =================================================================

\* the four edges of the lifecycle
LegalEdges ==
  { <<PENDING, ACCEPTED>>, <<ACCEPTED, PICKED_UP>>,
    <<PICKED_UP, ARRIVED_DESTINATION>>, <<ARRIVED_DESTINATION, DELIVERED>> }

\* C1: every change of a request's status, in any run of request creation,
\* accept and progress actions of the courier sessions, is one of the four
\* lifecycle edges.  Stated as is; SpecRace violates it.
C1_OnlyLegalEdges ==
  [][ \A id \in Ids(requests) :
        StatusOf(requests', id) # StatusOf(requests, id)
          => << StatusOf(requests, id), StatusOf(requests', id) >> \in LegalEdges ]_vars

\* C2: a status update whose target is not the successor of the request's
\* current status leaves the collection unchanged.  Stated as is; SpecApi
\* violates it.
C2_NonPredecessorRejected ==
  [][ \A id \in Ids(requests), status \in DeliveryStatus :
        ( handleUpdateStatus(id, status)
          /\ << StatusOf(requests, id), status >> \notin LegalEdges )
          => requests' = requests ]_vars

\* C3: an Accept on an offer whose request is no longer PENDING in the
\* collection (the other session won the race) does not change that
\* request's status.  Stated as is; SpecRace violates it.
C3_LosingAcceptChangesNothing ==
  [][ \A c \in Couriers :
        ( handleAcceptOffer(c)
          /\ StatusOf(requests, incomingOffer[c].id) # PENDING )
          => StatusOf(requests', incomingOffer[c].id)
               = StatusOf(requests, incomingOffer[c].id) ]_vars

\* C4: once a request is DELIVERED its status never changes again.
\* Stated as is; SpecRace violates it.
C4_DeliveredIsTerminal ==
  [][ \A id \in Ids(requests) :
        StatusOf(requests, id) = DELIVERED
          => StatusOf(requests', id) = DELIVERED ]_vars

Eligible(c) ==
  { r \in AvailableRequests(view[c]) : r.id \notin ignoredOffers[c] }

\* a step in which the Offer Detection effect selects an offer
MatcherSelects(c) ==
  /\ pending[c] # {}
  /\ pending'[c] # pending[c]
  /\ incomingOffer'[c] # Null
  /\ view'[c] = view[c]

\* C6 as stated: the offer the matcher selects is the eligible request that
\* was created earliest.  Spec violates it.
C6_MatcherSelectsEarliest ==
  [][ \A c \in Couriers :
        MatcherSelects(c)
          => \A r \in Eligible(c) : incomingOffer'[c].createdAt <= r.createdAt ]_vars

\* position of a request in a collection
IndexOf(reqs, id) == CHOOSE i \in 1..Len(reqs) : reqs[i].id = id

\* C6 amended: the offer the matcher selects is the first eligible request
\* (PENDING, not declined) in collection order; creation puts a request in
\* front, so no eligible request was created later than the selected one,
\* except among the seed requests, which are taken in their listed order.
C6_MatcherSelectsFirstInArray ==
  [][ \A c \in Couriers :
        MatcherSelects(c)
          => /\ incomingOffer'[c] \in Eligible(c)
             /\ \A r \in Eligible(c) :
                  /\ IndexOf(view[c], incomingOffer'[c].id) <= IndexOf(view[c], r.id)
                  /\ \/ r.createdAt <= incomingOffer'[c].createdAt
                     \/ {r.id, incomingOffer'[c].id} \subseteq SeedIds ]_vars

\* the matcher has chosen a created request while a seed request, created
\* before it, is eligible too
C6_Witness ==
  /\ Quiescent(Solo)
  /\ incomingOffer[Solo] # Null
  /\ incomingOffer[Solo].id \notin ignoredOffers[Solo]
  /\ \E r \in Eligible(Solo) : r.createdAt < incomingOffer[Solo].createdAt

\* C7 as stated: a request the courier declined is never again the current
\* offer while it is PENDING.  Spec violates it.
C7_DeclinedNeverOfferedAgain ==
  \A c \in Couriers :
    ( incomingOffer[c] # Null
      /\ StatusOf(requests, incomingOffer[c].id) = PENDING )
      => incomingOffer[c].id \notin ignoredOffers[c]

\* C7 amended: a declined request becomes the current offer again only by
\* the courier picking it from the available-requests list; the matcher
\* never selects it.
C7_DeclinedOfferedOnlyByPick ==
  [][ \A c \in Couriers :
        ( /\ incomingOffer'[c] # incomingOffer[c]
          /\ incomingOffer'[c] # Null
          /\ incomingOffer'[c].id \in ignoredOffers[c] )
          => pickFromList(c) ]_vars

\* after a decline the matcher has moved on to another request while the
\* declined one is still PENDING
C7_Witness ==
  /\ Quiescent(Solo)
  /\ incomingOffer[Solo] # Null
  /\ incomingOffer[Solo].id \notin ignoredOffers[Solo]
  /\ \E id \in ignoredOffers[Solo] : StatusOf(requests, id) = PENDING

\* C8: whenever the ignored set changes it is by the decline of the current
\* offer: the offer's id is added, the offer is cleared, the collection is
\* unchanged and the declined request is PENDING in it.
C8_DeclineFrame ==
  [][ \A c \in Couriers :
        ignoredOffers'[c] # ignoredOffers[c]
          => /\ incomingOffer[c] # Null
             /\ ignoredOffers'[c] = ignoredOffers[c] \cup {incomingOffer[c].id}
             /\ incomingOffer[c].id \notin ignoredOffers[c]
             /\ incomingOffer'[c] = Null
             /\ requests' = requests
             /\ StatusOf(requests', incomingOffer[c].id) = PENDING ]_vars

\* a decline has just been committed: the declined request is PENDING, the
\* offer is cleared and the Offer Detection effect is due
C8_Witness ==
  /\ pending[Solo] = {"offer"}
  /\ incomingOffer[Solo] = Null
  /\ isOnline[Solo]
  /\ activeDelivery[Solo] = Null
  /\ \E id \in ignoredOffers[Solo] : StatusOf(requests, id) = PENDING

\* =================================================================
\* Properties of the leg derivation
\* =================================================================

\* both coordinates of the request are set (and pass the code's truthiness
\* tests), so no pseudo-coordinate is involved
Resolved(req) ==
  /\ Truthy(req.pickupLat) /\ Truthy(req.pickupLng)
  /\ Truthy(req.dropoffLat) /\ Truthy(req.dropoffLng)

PickupOf(req) == << req.pickupLat.v, req.pickupLng.v >>

DropoffOf(req) == << req.dropoffLat.v, req.dropoffLng.v >>

\* C9 as stated: for PENDING and ACCEPTED the leg is (courier position ->
\* pickup), for PICKED_UP and ARRIVED_DESTINATION it is (pickup -> dropoff),
\* both in the route drawn for the courier and in the tracking simulation.
\* SpecLeg violates it.
C9_LegFollowsStatus ==
  Resolved(legIn) =>
    LET claimed ==
          IF legIn.status \in {PENDING, ACCEPTED}
          THEN << legIn.courierLocation, PickupOf(legIn) >>
          ELSE << PickupOf(legIn), DropoffOf(legIn) >>
    IN legIn.status # DELIVERED =>
         /\ "route" \in legOut.done => legOut.route = claimed
         /\ "track" \in legOut.done => legOut.track = claimed

\* C9 amended: for a request with resolved pickup and dropoff coordinates,
\* the route drawn for the courier is (pickup -> dropoff) in every status;
\* the courier's navigation target is the pickup for PENDING and ACCEPTED
\* and the dropoff for PICKED_UP and ARRIVED_DESTINATION; the tracking
\* simulation runs from (pickup - 0.01 degree) to the pickup for PENDING and
\* ACCEPTED, from pickup to dropoff for PICKED_UP, and stays at the dropoff
\* for ARRIVED_DESTINATION.
C9_LegsOfTheCode ==
  ( Resolved(legIn) /\ legIn.status # DELIVERED ) =>
    /\ "route" \in legOut.done
         => legOut.route = << PickupOf(legIn), DropoffOf(legIn) >>
    /\ "target" \in legOut.done
         => legOut.target = IF legIn.status \in {PENDING, ACCEPTED}
                            THEN PickupOf(legIn) ELSE DropoffOf(legIn)
    /\ "track" \in legOut.done
         => legOut.track =
              IF legIn.status \in {PENDING, ACCEPTED}
              THEN << << PickupOf(legIn)[1] - 100, PickupOf(legIn)[2] - 100 >>,
                      PickupOf(legIn) >>
              ELSE IF legIn.status = PICKED_UP
              THEN << PickupOf(legIn), DropoffOf(legIn) >>
              ELSE << DropoffOf(legIn), DropoffOf(legIn) >>

\* the three derivations have been applied to an ARRIVED_DESTINATION request
\* with resolved coordinates
C9_Witness ==
  /\ Resolved(legIn)
  /\ legIn.status = ARRIVED_DESTINATION
  /\ legOut.done = {"route", "target", "track"}
  /\ legOut.route # legOut.track

\* =================================================================
\* Properties of geocodeAddress
\* =================================================================

\* a field counts as given when something is left of it after trimming
Given(field) == \E i \in 1..Len(field) : field[i] \notin Whitespace

\* the fields each tier requires, as the contract lists them
RequiredFields(k) ==
  IF k = 1 THEN { geoIn.street, geoIn.number, geoIn.city }
  ELSE IF k = 2 THEN { geoIn.street, geoIn.city }
  ELSE IF k = 3 THEN { geoIn.neighborhood, geoIn.city }
  ELSE { geoIn.city }

\* the tiers whose required fields are given and whose lookup has a match
WinningTiers ==
  { k \in 1..4 : (\A f \in RequiredFields(k) : Given(f)) /\ geoSvc[k].kind = "match" }

\* C10: the call returns the place of the first tier, in the order exact,
\* street, neighborhood, city, whose required fields are all given and
\* whose lookup has a match, tagged with that tier's precision, and
\* NotFound when there is no such tier.
C10_FirstMatchingTierWins ==
  geoPc = 6 =>
    IF WinningTiers = {} THEN geoResult = NotFound
    ELSE LET k == CHOOSE t \in WinningTiers : \A u \in WinningTiers : t <= u
         IN /\ geoResult.found
            /\ geoResult.precision = << "exact", "street", "neighborhood", "city" >>[k]
            /\ geoResult.display_name = geoSvc[k].display_name
            /\ geoResult.lat = parseFloat(geoSvc[k].lat)
            /\ geoResult.lng = parseFloat(geoSvc[k].lon)

\* a call with all four fields given has fallen through the exact and the
\* street tier and returned the neighborhood tier's place
C10_Witness ==
  /\ geoPc = 6
  /\ geoResult.found
  /\ geoResult.precision = "neighborhood"
  /\ Len(geoLog) = 3
  /\ geoSvc[4].kind = "match"

\* C11: when the city is empty or blank the call issues no lookup at all
\* and returns NotFound, whatever the other three fields contain.
C11_NoCityNoLookup ==
  ~Given(geoIn.city) =>
    /\ geoLog = << >>
    /\ geoFlight = {}
    /\ geoPc = 6 => geoResult = NotFound

\* a call with a blank city and the three other fields given has returned,
\* against a service that would have matched every query
C11_Witness ==
  /\ geoPc = 6
  /\ geoIn.city = << " " >>
  /\ Given(geoIn.street) /\ Given(geoIn.number) /\ Given(geoIn.neighborhood)
  /\ \A k \in 1..4 : geoSvc[k].kind = "match"
  /\ geoResult = NotFound

\* the tiers whose lookup has been issued so far
Queried == { geoLog[i].tier : i \in 1..Len(geoLog) }

FieldsGiven(k) == \A f \in RequiredFields(k) : Given(f)

\* C12: lookups are issued one at a time in tier order, only for tiers
\* whose required fields are given, and stop at the first match: no two are
\* in flight together, no tier is queried twice, nothing is queried after a
\* match, and a finished call has queried exactly the tiers with their
\* fields given up to the first one that matched.
C12_OneAtATimeInTierOrder ==
  /\ Cardinality(geoFlight) <= 1
  /\ \A i, j \in 1..Len(geoLog) : i < j => geoLog[i].tier < geoLog[j].tier
  /\ \A k \in Queried : FieldsGiven(k)
  /\ \A i \in 1..Len(geoLog) : i < Len(geoLog) => geoSvc[geoLog[i].tier].kind # "match"
  /\ geoPc = 6 =>
       Queried = { k \in 1..4 : FieldsGiven(k) /\ \A w \in WinningTiers : k <= w }

\* street, number and city given: the exact tier was queried first, it
\* matched, and nothing else was queried though the street tier would
\* have matched too
C12_Witness ==
  /\ geoPc = 6
  /\ Given(geoIn.street) /\ Given(geoIn.number) /\ Given(geoIn.city)
  /\ geoSvc[1].kind = "match" /\ geoSvc[2].kind = "match"
  /\ Queried = {1}
  /\ geoResult.precision = "exact"

\* the service with every failed lookup replaced by an empty answer
ErrorsAsEmpty == [ k \in 1..4 |-> IF geoSvc[k].kind = "error" THEN SvcEmpty ELSE geoSvc[k] ]

\* what the contract gives for a service svc: the first tier with its
\* fields given and a match
ResultFor(svc) ==
  LET win == { k \in 1..4 : FieldsGiven(k) /\ svc[k].kind = "match" }
  IN IF win = {} THEN NotFound
     ELSE LET k == CHOOSE t \in win : \A u \in win : t <= u
          IN [ found |-> TRUE, lat |-> parseFloat(svc[k].lat),
               lng |-> parseFloat(svc[k].lon),
               display_name |-> svc[k].display_name,
               precision |-> << "exact", "street", "neighborhood", "city" >>[k] ]

\* C13: a lookup that fails is treated like one without a match: the call
\* is never rejected, and what it returns is what it would return had each
\* failed lookup answered with an empty list.
C13_ErrorIsNoMatch ==
  /\ geoResult # Rejected
  /\ geoPc = 6 => geoResult = ResultFor(ErrorsAsEmpty)

\* the exact lookup failed, the call went on and returned the street tier
C13_Witness ==
  /\ geoPc = 6
  /\ geoSvc[1].kind = "error"
  /\ Queried = {1, 2}
  /\ geoResult.found /\ geoResult.precision = "street"

\* =================================================================
\* Properties of the order form
\* =================================================================

\* an address has a coordinate stored in the form
Stored(type) == Truthy(LatOf(formData, type)) /\ Truthy(LngOf(formData, type))

\* C14: a coordinate stored for an address was resolved from the address
\* text as it stands (an edit of any of the four fields invalidates it), so
\* each coordinate a submission hands over was obtained by a geocodeAddress
\* call on the address text of that submission.
C14_CoordinateIsOfCurrentText ==
  /\ \A type \in AddressTypes :
       Stored(type) => coordFrom[type] = AddressOf(formData, type)
  /\ \A i \in 1..Len(formOut) :
       /\ formOut[i].pickupSrc = formOut[i].pickupAddress
       /\ formOut[i].dropoffSrc = formOut[i].dropoffAddress

\* an address some tier resolves when no lookup fails
Resolvable(addr) ==
  geocodeAddress(addr, [ k \in 1..4 |-> ServiceAnswer(QueryOf(k, addr)) ]).found

\* C15: the collection grows only by the requests submissions hand over;
\* no request is handed over with a pickup or dropoff address that no tier
\* resolves, and each one carries both coordinates.
C15_NoRequestForUnresolvedAddress ==
  /\ Len(requests) = 2 + Len(formOut)
  /\ \A i \in 1..Len(formOut) :
       /\ Resolvable(formOut[i].pickupAddress)
       /\ Resolvable(formOut[i].dropoffAddress)
       /\ formOut[i].pickupLat.def /\ formOut[i].pickupLng.def
       /\ formOut[i].dropoffLat.def /\ formOut[i].dropoffLng.def

\* =================================================================
\* Properties of the route computation
\* =================================================================

\* the corner the contract gives for an origin and a destination
Corner(origin, destination) ==
  IF Abs(destination[1] - origin[1]) > Abs(destination[2] - origin[2])
  THEN << destination[1], origin[2] >>
  ELSE << origin[1], destination[2] >>

\* C16: the fallback path is << origin, corner, destination >>, the corner
\* being (destination.lat, origin.lng) when the latitude delta is the larger
\* and (origin.lat, destination.lng) otherwise, a tie included; so it is
\* never empty, starts at the origin and ends at the destination.
C16_FallbackIsOriginCornerDestination ==
  "fallback" \in routeOut.done =>
    /\ routeOut.fallback = << routeIn.start, Corner(routeIn.start, routeIn.end), routeIn.end >>
    /\ routeOut.fallback # << >>
    /\ Head(routeOut.fallback) = routeIn.start
    /\ routeOut.fallback[Len(routeOut.fallback)] = routeIn.end

\* origin (0,0), destination (1,2): the corner is (0,2)
C16_Witness ==
  /\ "fallback" \in routeOut.done
  /\ routeIn.start = << 0, 0 >>
  /\ routeIn.end = << 1, 2 >>
  /\ routeOut.fallback[2] = << 0, 2 >>

\* the service reports success with at least one point
RouteSuccess ==
  /\ routeIn.outcome.kind = "json"
  /\ routeIn.outcome.code = "Ok"
  /\ routeIn.outcome.hasRoutes /\ routeIn.outcome.nRoutes > 0
  /\ routeIn.outcome.hasGeometry
  /\ Len(routeIn.outcome.coordinates) >= 1

\* C17: the route is the service's waypoints, point for point as
\* (lat, lng), when the service reports success with at least one point,
\* and the fallback path in every other case; it is never empty.
C17_ServiceRouteOrFallback ==
  "route" \in routeOut.done =>
    /\ routeOut.route # << >>
    /\ IF RouteSuccess
       THEN /\ Len(routeOut.route) = Len(routeIn.outcome.coordinates)
            /\ \A i \in 1..Len(routeOut.route) :
                 /\ routeOut.route[i][1] = routeIn.outcome.coordinates[i][2]
                 /\ routeOut.route[i][2] = routeIn.outcome.coordinates[i][1]
       ELSE routeOut.route =
              << routeIn.start, Corner(routeIn.start, routeIn.end), routeIn.end >>

\* the service said Ok with an empty list of points and the fallback was
\* taken
C17_Witness ==
  /\ "route" \in routeOut.done
  /\ routeIn.outcome.code = "Ok"
  /\ routeIn.outcome.hasGeometry
  /\ routeIn.outcome.coordinates = << >>
  /\ Len(routeOut.route) = 3
  /\ routeIn.start # routeIn.end

\* =================================================================
\* Properties of the tracking simulation
\* =================================================================

\* timer u after a step is timer t before it, one tick later
Ticked(t, u) == u.id = t.id /\ u # t

\* C18: a tick puts the marker at start + (end - start) * p in each
\* coordinate, p being the progress after the tick: at the start for p = 0
\* and at the end for p = 1.
C18_LinearInterpolation ==
  [][ \A t \in timers : \A u \in timers' :
        (Ticked(t, u) /\ courierMarker.on) =>
          /\ courierMarker'.on
          /\ courierMarker'.lat = u.startPos[1] * ONE + (u.endPos[1] - u.startPos[1]) * u.progress
          /\ courierMarker'.lng = u.startPos[2] * ONE + (u.endPos[2] - u.startPos[2]) * u.progress
          /\ u.progress = 0 =>
               /\ courierMarker'.lat = u.startPos[1] * ONE
               /\ courierMarker'.lng = u.startPos[2] * ONE
          /\ u.progress = ONE =>
               /\ courierMarker'.lat = u.endPos[1] * ONE
               /\ courierMarker'.lng = u.endPos[2] * ONE ]_vars

\* start (0,0), end (10,10) degrees, progress 0.5: the marker is at (5,5)
C18_Witness ==
  /\ courierMarker = MarkerAt(50000 * ONE, 50000 * ONE)
  /\ \E t \in timers :
       /\ t.startPos = << 0, 0 >>
       /\ t.endPos = << 100000, 100000 >>
       /\ t.progress = 500

\* C19: a tick adds one fixed step to the progress of its timer and leaves
\* it in [0,1]; when the step takes it above 1 it becomes 0, except on the
\* arrived leg, where it becomes 1; there, once at 1, it is 1 after every
\* later tick and the marker stays at the end of the leg.
C19_ProgressStepsWrapsOrClamps ==
  [][ \A t \in timers : \A u \in timers' :
        /\ Ticked(t, u) =>
             /\ u.progress >= 0 /\ u.progress <= ONE
             /\ u.progress =
                  IF AboveOne(t.progress + PROGRESS_STEP)
                  THEN IF t.status = ARRIVED_DESTINATION THEN ONE ELSE 0
                  ELSE t.progress + PROGRESS_STEP
        /\ (u.id = t.id /\ t.status = ARRIVED_DESTINATION /\ t.progress = ONE) =>
             /\ u.progress = ONE
             /\ courierMarker' = MarkerAt(t.endPos[1] * ONE, t.endPos[2] * ONE) ]_vars

\* the timer of an arrived request has reached 1 and the marker is at the
\* end of its leg
C19_Witness ==
  /\ trackingRequest # Null
  /\ trackingRequest.status = ARRIVED_DESTINATION
  /\ \E t \in timers :
       /\ t.status = ARRIVED_DESTINATION
       /\ t.progress = ONE
       /\ courierMarker = MarkerAt(t.endPos[1] * ONE, t.endPos[2] * ONE)

\* C20: at most one simulation timer is active at any time, and it is the
\* one simulationRef holds: a timer is started only once the previous one
\* is cancelled.
C20_AtMostOneTimer ==
  /\ Cardinality(timers) <= 1
  /\ \A t \in timers : t.id = simulationRef

\* a later timer runs, after status or location changes, and no earlier one
C20_Witness ==
  /\ timerCount >= 2
  /\ trackingRequest # Null
  /\ \E t \in timers : t.id = timerCount /\ t.progress > 0
  /\ Cardinality(timers) = 1

\* =================================================================
\* Properties of the holders of a request
\* =================================================================

\* session c has rendered the current collection and its effects have run
Reacted(c) == Quiescent(c) /\ ~stale[c]

\* the copy a holder keeps agrees with the collection
ShowsCommitted(copy) ==
  copy # Null => copy.status = StatusOf(requests, copy.id)

\* C21: once the observers have reacted to the committed transitions (a
\* courier session has rendered the collection and run its effects, the
\* customer's re-sync effect has run), the session's active delivery and
\* current offer, and the customer's tracked request, carry the status the
\* collection holds for that request.
C21_HoldersShowCommittedStatus ==
  /\ \A c \in Couriers :
       Reacted(c) => /\ ShowsCommitted(activeDelivery[c])
                     /\ ShowsCommitted(incomingOffer[c])
  /\ touched = {} => ShowsCommitted(trackingRequest)

\* the customer still tracks the first request, now DELIVERED (tracking
\* opens only on a request not yet delivered, so the re-sync effect handed
\* the status over), and both sessions have reacted and hold the second
\* request, accepted meanwhile, as their active delivery
C21_Witness ==
  /\ trackingRequest # Null
  /\ trackingRequest.status = DELIVERED
  /\ touched = {}
  /\ \A c \in Couriers :
       Reacted(c) /\ activeDelivery[c] # Null /\ activeDelivery[c].id = "2"

\* =================================================================
\* Properties of the collection
\* =================================================================

\* the collection without its i-th element
Without(reqs, i) == SubSeq(reqs, 1, i - 1) \o SubSeq(reqs, i + 1, Len(reqs))

\* C22: a creation adds exactly one request, PENDING and under a new id,
\* and leaves the requests there were as they were; no step of creation or
\* status update removes a request: the set of ids only grows, a DELIVERED
\* request included.
C22_CreationAddsOneNothingRemoved ==
  [][ /\ Ids(requests) \subseteq Ids(requests')
      /\ created' = created => Len(requests') = Len(requests)
      /\ created' # created =>
            \E i \in 1..Len(requests') :
              /\ requests'[i].status = PENDING
              /\ requests'[i].id \notin Ids(requests)
              /\ Without(requests', i) = requests ]_vars

\* requests were created after a request was DELIVERED, and it is still there
C22_Witness ==
  /\ created = MaxCreate
  /\ Len(requests) = 2 + MaxCreate
  /\ \E id \in SeedIds : StatusOf(requests, id) = DELIVERED
  /\ \E i \in 1..Len(requests) :
       requests[i].id \notin SeedIds /\ requests[i].status = ACCEPTED

\* C24: a status update for id changes nothing but the status field of the
\* request with that id: the other requests are the same, the updated
\* request keeps every other field (addresses, coordinates, payer, payment
\* method, creation time), and for an id that is not in the collection the
\* collection stays as it is.
C24_UpdateChangesOnlyTheStatus ==
  [][ \A id \in Ids(requests) \cup { UnknownId }, status \in DeliveryStatus :
        handleUpdateStatus(id, status)
          => /\ Len(requests') = Len(requests)
             /\ \A i \in 1..Len(requests) :
                  /\ requests[i].id # id => requests'[i] = requests[i]
                  /\ [ requests'[i] EXCEPT !.status = requests[i].status ]
                       = requests[i]
                  /\ requests[i].id = id => requests'[i].status = status
             /\ id \notin Ids(requests) => requests' = requests ]_vars

\* a created request, which carries coordinates, has been updated and still
\* carries the fields it was created with, next to a seed request that was
\* updated too
C24_Witness ==
  /\ created > 0
  /\ StatusOf(requests, NewId(0)) = PICKED_UP
  /\ ById(requests, NewId(0))
       = [ CreatedRequest(NewRequest(0), 0) EXCEPT !.status = PICKED_UP ]
  /\ StatusOf(requests, "1") = DELIVERED
  /\ ById(requests, "1").payer = "SENDER"

\* =================================================================
\* Properties of the courier's actions
\* =================================================================

\* the three edges of the progress action
ProgressEdges == LegalEdges \ { << PENDING, ACCEPTED >> }

\* C23: an accept moves the offered request from PENDING to ACCEPTED and
\* clears the offer; a progress action moves the active delivery along the
\* edge that leaves its status (ACCEPTED to PICKED_UP, PICKED_UP to
\* ARRIVED_DESTINATION, ARRIVED_DESTINATION to DELIVERED).  Stated as is;
\* SpecRace violates it.
C23_ActionsPerformTheirEdge ==
  [][ \A c \in Couriers :
        /\ handleAcceptOffer(c)
             => /\ StatusOf(requests, incomingOffer[c].id) = PENDING
                /\ StatusOf(requests', incomingOffer[c].id) = ACCEPTED
                /\ incomingOffer'[c] = Null
        /\ handleProgressAction(c)
             => << StatusOf(requests, activeDelivery[c].id),
                   StatusOf(requests', activeDelivery[c].id) >> \in ProgressEdges ]_vars

\* =================================================================
\* Properties of the simulation across legs
\* =================================================================

\* the simulation is to run: a request is tracked, not DELIVERED, on a map
Simulating ==
  trackingRequest # Null /\ trackingRequest.status # DELIVERED /\ mapReady

\* C25: every change of the tracked request (its status changed: the leg
\* switched) makes the Tracking Logic effect run again, and every run of
\* the effect leaves, when the simulation is to run, exactly one interval,
\* a new one, at progress 0, whose start and end are the leg of the status
\* now tracked; otherwise it leaves none.  No interval outlives a run,
\* so no progress of the previous leg carries over.
C25_LegSwitchRestartsAtZero ==
  [][ /\ trackingRequest' # trackingRequest => trackEffect'
      /\ (trackEffect /\ ~trackEffect')
           => IF Simulating
              THEN \E t \in timers' :
                     /\ timers' = { t }
                     /\ t.id \notin { u.id : u \in timers }
                     /\ t.progress = 0
                     /\ t.status = trackingRequest.status
                     /\ << t.startPos, t.endPos >>
                          = trackingLeg(trackingRequest, custLocation)
              ELSE timers' = {} ]_vars

\* the request was picked up while the simulation of the accepted leg had
\* moved the marker: the interval now running is a later one, on the leg
\* from pickup to dropoff, at progress 0, the marker still where the
\* previous leg left it
C25_Witness ==
  /\ ~trackEffect
  /\ Simulating
  /\ trackingRequest.status = PICKED_UP
  /\ timerCount > 1
  /\ \E t \in timers :
       /\ t.progress = 0
       /\ t.status = PICKED_UP
       /\ courierMarker.on
       /\ << courierMarker.lat, courierMarker.lng >>
            # << t.startPos[1] * ONE, t.startPos[2] * ONE >>
       /\ courierMarker.lat % ONE # 0

\* =================================================================
\* Properties of the route drawing
\* =================================================================

\* C26: at most one route polyline is on the map at any time, and once
\* the effect has run for the current target every polyline on the map is
\* that target's: the answer to a drawRoute call made for an earlier
\* target adds none and leaves none.  Stated as is; SpecDraw violates it.
C26_OnePolylineOfCurrentTarget ==
  /\ Cardinality(mapLayers) <= 1
  /\ ~drawPending => \A l \in mapLayers : l.target = drawTarget

\* =================================================================
\* Properties of the address validation
\* =================================================================

\* C27: a handleValidateAddress call that completes after the text of its
\* address was edited (its arguments are no longer the text of the form)
\* leaves the coordinate stored for that address as it is.  Stated as is;
\* SpecForm violates it.
C27_LateValidationDoesNotWrite ==
  [][ \A call \in validating :
        ( /\ validating' = validating \ { call }
          /\ call.args # AddressOf(formData, call.type) )
          => /\ LatOf(formData', call.type) = LatOf(formData, call.type)
             /\ LngOf(formData', call.type) = LngOf(formData, call.type) ]_vars

\* =================================================================
\* Properties of one courier session
\* =================================================================

\* the requests in an active status
ActiveIds(reqs) == { reqs[i].id : i \in { j \in 1..Len(reqs) : reqs[j].status \in ActiveStatuses } }

\* C28: in a run of one courier session (accepts, declines, progress
\* actions, online/offline toggles, picks from the list, requests being
\* created meanwhile) at most one request is ACCEPTED, PICKED_UP or
\* ARRIVED_DESTINATION at any time, and whenever the session can accept an
\* offer no request is.
C28_AtMostOneActive ==
  /\ Cardinality(ActiveIds(requests)) <= 1
  /\ (Quiescent(Solo) /\ OfferCardShown(Solo)) => ActiveIds(requests) = {}

\* a delivery is under way after an earlier one was DELIVERED, a PENDING
\* request the courier has not declined is waiting, the effects have run
\* and no offer can be accepted
C28_Witness ==
  /\ Quiescent(Solo)
  /\ Cardinality(ActiveIds(requests)) = 1
  /\ \E i \in 1..Len(requests) : requests[i].status = DELIVERED
  /\ NextOffer(requests, ignoredOffers[Solo]) # Null
  /\ isOnline[Solo]
  /\ ~OfferCardShown(Solo)

\* =================================================================
\* Properties of the offer
\* =================================================================

\* session c shows an offer that can be accepted
Acceptable(c) == Quiescent(c) /\ OfferCardShown(c)

\* C29 as stated: an offer that can be accepted is the offer of a request
\* that is PENDING in the collection.  SpecOffers violates it.
C29_OfferIsPendingInCollection ==
  \A c \in Couriers :
    Acceptable(c) => StatusOf(requests, incomingOffer[c].id) = PENDING

\* C29 amended: an offer that can be accepted is the offer of a request of
\* the collection that is PENDING in the collection as the session last
\* rendered it, and PENDING in the collection itself when the session has
\* rendered the latest one.
C29_OfferIsPendingAsRendered ==
  \A c \in Couriers :
    Acceptable(c)
      => /\ incomingOffer[c].id \in Ids(requests)
         /\ StatusOf(view[c], incomingOffer[c].id) = PENDING
         /\ incomingOffer[c] = ById(view[c], incomingOffer[c].id)
         /\ ~stale[c] => StatusOf(requests, incomingOffer[c].id) = PENDING

\* a session shows, ready to be accepted, a request it had declined and
\* picked from the list again, while the other session, on the same
\* collection, shows the offer the matcher chose for it
C29_Witness ==
  \E c \in Couriers, other \in Couriers :
    /\ c # other
    /\ Acceptable(c)
    /\ ~stale[c]
    /\ incomingOffer[c].id \in ignoredOffers[c]
    /\ Acceptable(other)
    /\ ~stale[other]
    /\ incomingOffer[other].id \notin ignoredOffers[other]

\* the courier is online, has no active delivery, and a PENDING request it
\* has not declined is in the collection
WantsOffer ==
  /\ isOnline[Solo]
  /\ activeDelivery[Solo] = Null
  /\ NextOffer(requests, ignoredOffers[Solo]) # Null

\* C30: whenever the courier is online, has no active delivery and some
\* PENDING request is not in its ignored set, an offer is presented once
\* the collection is rendered and the effects have run, and so eventually
\* (unless the courier goes offline or the requests are taken meanwhile);
\* so it is after a decline and after a delivery reached DELIVERED.
C30_EligibleRequestIsOffered ==
  /\ []( (Reacted(Solo) /\ WantsOffer) => incomingOffer[Solo] # Null )
  /\ ( WantsOffer ~> (incomingOffer[Solo] # Null \/ ~WantsOffer) )

\* after a decline and after a delivery that reached DELIVERED the matcher
\* has presented a request the courier has not declined
C30_Witness ==
  /\ Reacted(Solo)
  /\ WantsOffer
  /\ ignoredOffers[Solo] # {}
  /\ \E i \in 1..Len(requests) : requests[i].status = DELIVERED
  /\ incomingOffer[Solo] # Null
  /\ incomingOffer[Solo].id \notin ignoredOffers[Solo]

====
